---- MODULE Spec2Model ----
(***************************************************************************)
(* Model of the website-builder generation pipeline:                       *)
(*   backend/routes/ollama_api.py      (singletons, websocket handler)     *)
(*   backend/services/prompt_manager.py (orchestrator, code extraction)    *)
(*   backend/models/ollama_client.py   (inference client)                  *)
(*   backend/config.py                 (configuration)                     *)
(* One asyncio coroutine per websocket connection; a step of the model is  *)
(* the code between two await points.  The inference server and the remote *)
(* end of each websocket are the environment.                              *)
(***************************************************************************)
EXTENDS Integers, Sequences, FiniteSets, TLC

(* ------------------------------ bounds --------------------------------- *)
\* websocket connections (handler coroutines) in the process
NumConns == 2
\* frames the remote end sends on one connection
MaxReqs == 2
\* frames waiting unread on one connection
MaxInbox == 1
\* response lines the server sends for one generate request
MaxLines == 2
\* pieces (prose lines, filename mentions, fenced blocks) of a completion
MaxPieces == 4
\* messages of a conversation
MaxMsgs == 2
\* calls that arrive on the request/response path
MaxCalls == 1

Conns == 1..NumConns
\* OllamaClient objects the process may construct
ClientIds == 1..(NumConns + MaxCalls)

(* --------------------------- configuration ----------------------------- *)
\* a URL is the sequence <<scheme, host, port>> followed by the "/" characters
\* written after it
OLLAMA_BASE_URL == <<"http://", "localhost", ":11434">>
REQUIRED_OLLAMA_MODELS == {"gpt-oss-20b", "llama3.2:3b"}
OLLAMA_MODEL_NAME == "llama3.2:3b"
SHOULD_MOCK_AI_RESPONSE == TRUE

None == "None"

(* ------------------------------- text ---------------------------------- *)
\* Text is a sequence of tokens: ordinary characters, whitespace, the
\* three-backtick fence and the sentence openers _extract_code looks for.
\* the three-backtick fence marker, one token
FENCE == "<fence>"
NL == "\n"
Whitespace == {" ", NL}
Prefixes == {"Here's", "Here is", "I'll create", "This is"}

RECURSIVE LStrip(_)
LStrip(s) == IF s # <<>> /\ Head(s) \in Whitespace THEN LStrip(Tail(s)) ELSE s

RECURSIVE RStrip(_)
RStrip(s) ==
    IF s # <<>> /\ s[Len(s)] \in Whitespace
    THEN RStrip(SubSeq(s, 1, Len(s) - 1))
    ELSE s

\* str.strip()
Strip(s) == RStrip(LStrip(s))

\* str.split(sep): the pieces between occurrences of sep, empty ones kept
RECURSIVE SplitAcc(_, _, _, _)
SplitAcc(s, sep, cur, acc) ==
    IF s = <<>> THEN Append(acc, cur)
    ELSE IF Head(s) = sep
         THEN SplitAcc(Tail(s), sep, <<>>, Append(acc, cur))
         ELSE SplitAcc(Tail(s), sep, Append(cur, Head(s)), acc)

Split(s, sep) == SplitAcc(s, sep, <<>>, <<>>)

\* sep.join(parts)
RECURSIVE Join(_, _)
Join(parts, sep) ==
    IF parts = <<>> THEN <<>>
    ELSE IF Len(parts) = 1 THEN parts[1]
    ELSE parts[1] \o <<sep>> \o Join(Tail(parts), sep)

Contains(s, tok) == \E i \in 1..Len(s) : s[i] = tok

\* the first odd-indexed part (0-based) of a fence split that has more than
\* one line, or 0 when there is none
FirstCodeBlock(parts) ==
    LET cands == {i \in 1..Len(parts) :
                     (i - 1) % 2 = 1 /\ Len(Split(parts[i], NL)) > 1}
    IN  IF cands = {} THEN 0
        ELSE CHOOSE i \in cands : \A j \in cands : i <= j

\* WebsitePromptManager._extract_code
ExtractCode(response) ==
    LET r == Strip(response)
        parts == Split(r, FENCE)
        blk == IF Contains(r, FENCE) THEN FirstCodeBlock(parts) ELSE 0
    IN  IF blk # 0
        THEN Strip(Join(Tail(Split(parts[blk], NL)), NL))
        ELSE IF r # <<>> /\ Head(r) \in Prefixes
             THEN Strip(Join(Tail(Split(r, NL)), NL))
             ELSE r

\* the file indicator _parse_files finds in a token of the lower-cased text
Hint(tok) ==
    CASE tok \in {"index.html", "INDEX.HTML"} -> "index.html"
      [] tok = "style.css" -> "style.css"
      [] tok \in {"script.js", ".js"} -> ".js"
      [] OTHER -> None

\* "<indicator> in part.lower()"
Mentions(part, h) == \E i \in 1..Len(part) : Hint(part[i]) = h

\* files[k] = v
Put(files, k, v) ==
    [f \in DOMAIN files \cup {k} |-> IF f = k THEN v ELSE files[f]]

\* the loop of _parse_files over the parts of the fence split, from part i
RECURSIVE AssignFiles(_, _, _, _)
AssignFiles(parts, i, current, files) ==
    IF i > Len(parts) THEN files
    ELSE IF (i - 1) % 2 = 1
    THEN AssignFiles(parts, i + 1, current,
                     Put(files, current, Strip(parts[i])))
    ELSE IF Mentions(parts[i], "style.css")
    THEN AssignFiles(parts, i + 1, "style.css", files)
    ELSE IF Mentions(parts[i], ".js")
    THEN AssignFiles(parts, i + 1, "script.js", files)
    ELSE AssignFiles(parts, i + 1, current, files)

\* WebsitePromptManager._parse_files
ParseFiles(response) ==
    LET files == IF Mentions(response, "index.html")
                 THEN AssignFiles(Split(response, FENCE), 1, "index.html",
                                  <<>>)
                 ELSE <<>>
    IN  IF DOMAIN files = {}
        THEN Put(<<>>, "index.html", ExtractCode(response))
        ELSE files

\* sep.join(parts) for a separator of several characters
RECURSIVE JoinStr(_, _)
JoinStr(parts, sep) ==
    IF parts = <<>> THEN <<>>
    ELSE IF Len(parts) = 1 THEN parts[1]
    ELSE parts[1] \o sep \o JoinStr(Tail(parts), sep)

\* A message is a dict: role is None when the key is missing; content is a
\* string (list = FALSE, text) or a list of typed items (list = TRUE, items).
Message(r, l, t, its) == [role |-> r, list |-> l, text |-> t, items |-> its]
Item(ty, t) == [type |-> ty, text |-> t]

IMAGE_PLACEHOLDER ==
    "[IMAGE: Web UI Screenshot - Analyze layout, colors, components, and structure]"
FINAL_INSTRUCTION ==
    <<"Assistant: ",
      "I'll create clean, professional web code based on the requirements. Let me generate:">>

\* the text_parts collected from a list content
RECURSIVE TextParts(_)
TextParts(items) ==
    IF items = <<>> THEN <<>>
    ELSE LET it == Head(items)
             rest == TextParts(Tail(items))
         IN  IF it.type = "text" THEN <<it.text>> \o rest
             ELSE IF it.type = "image_url"
             THEN <<<<IMAGE_PLACEHOLDER>>>> \o rest
             ELSE rest

\* message.get("role", "user")
RoleOf(m) == IF m.role = None THEN "user" ELSE m.role

\* the content after the isinstance(content, list) branch
ContentOf(m) == IF m.list THEN Join(TextParts(m.items), " ") ELSE m.text

\* the role label of the f-strings, None for a role no branch handles
RoleLabel(r) ==
    CASE r = "system" -> "System: "
      [] r = "user" -> "User: "
      [] r = "assistant" -> "Assistant: "
      [] OTHER -> None

\* prompt_parts after the loop over the messages
RECURSIVE PromptParts(_)
PromptParts(messages) ==
    IF messages = <<>> THEN <<>>
    ELSE LET m == Head(messages)
             l == RoleLabel(RoleOf(m))
         IN  IF l = None THEN PromptParts(Tail(messages))
             ELSE <<<<l>> \o ContentOf(m)>> \o PromptParts(Tail(messages))

\* variant: parts joined by a single newline
PROMPT_SEPARATOR_Single == <<NL>>

\* the separator of the final join
PROMPT_SEPARATOR == <<NL, NL>>

\* OllamaClient._format_messages_for_ollama
FormatMessages(messages) ==
    JoinStr(Append(PromptParts(messages), FINAL_INSTRUCTION), PROMPT_SEPARATOR)

(* ---------------------------- environment ------------------------------ *)
\* the pieces a completion is made of: a line of prose, a line that opens
\* with one of the sentence openers, a line that mentions a file name, a
\* fenced block with a language tag, a fenced block on one line
Pieces ==
    { <<"a", NL>>,
      <<"Here's", " ", "a", NL>>,
      <<"index.html", NL>>,
      <<"style.css", NL>>,
      <<"script.js", NL>>,
      <<FENCE, "html", NL, " ", "<p>", NL, FENCE, NL>>,
      <<FENCE, "html", NL, "<h1>", NL, FENCE, NL>>,
      <<FENCE, "css", NL, "b{}", NL, FENCE, NL>>,
      <<FENCE, "x", FENCE, NL>> }

\* the completions the parsers are given
RECURSIVE Flatten(_)
Flatten(ps) == IF ps = <<>> THEN <<>> ELSE Head(ps) \o Flatten(Tail(ps))

Responses ==
    { Flatten(ps) : ps \in UNION {[1..n -> Pieces] : n \in 0..MaxPieces} }

\* the messages of a conversation: the three roles of the API, a message
\* without a role, a role the formatter has no branch for; plain and
\* multimodal contents
MessageRoles == {"system", "user", "assistant", None, "tool"}
MessageContents ==
    { <<FALSE, <<"hi">>, <<>>>>,
      <<FALSE, <<"a", NL, NL, "b">>, <<>>>>,
      <<TRUE, <<>>, <<Item("text", <<"a">>), Item("image_url", <<>>)>>>> }
Messages ==
    { Message(r, c[1], c[2], c[3]) : r \in MessageRoles,
                                     c \in MessageContents }
Conversations == UNION {[1..n -> Messages] : n \in 0..MaxMsgs}

\* model names a request may carry; None means the field is absent
ModelNames == {None, "llama3.2:1b"}
\* model listings the inference server may report on GET /api/tags
ServerListings ==
    { {}, {"llama3.2:3b"}, {"llama3.2:3b", "llama3.2:1b"} }
\* texts the server may put in the "response" field of a line
ChunkTexts == { <<"a", NL>> }

\* request kinds websocket_generate_stream dispatches on
KnownTypes == {"html", "css", "react", "enhance", "fix"}
\* a discriminant that is none of them, and the missing discriminant
\* (data.get("type") is None)
UnknownTypes == {"bogus", None}

\* An inbound websocket frame.  json tells whether the frame decodes to a
\* JSON object; ok tells whether the kind-specific fields have the types
\* the prompt templates expect.
Frame(j, t, m, o) == [json |-> j, type |-> t, model |-> m, ok |-> o]
NoFrame == Frame("object", None, None, TRUE)
ObjectFrames ==
    {Frame("object", t, m, TRUE) : t \in KnownTypes, m \in ModelNames}
    \cup {Frame("object", t, None, TRUE) : t \in UnknownTypes}
    \cup {Frame("object", t, None, FALSE) : t \in {"css", "react"}}
MalformedFrames ==
    {Frame(j, None, None, TRUE) : j \in {"undecodable", "nonobject"}}
AllFrames == ObjectFrames \cup MalformedFrames
\* the frames of a remote end that asks for one kind of generation
MenuFor(k) == {f \in AllFrames : f.type \in {k} \cup UnknownTypes}

(* -------------------------------- state -------------------------------- *)
NoObj == 0
\* OllamaClient._available_models: <<>> is None, <<S>> is a list
NoList == <<>>

VARIABLES
    pc,             \* per connection: position of the handler coroutine
    inbox,          \* per connection: frames sent by the remote end, unread
    connected,      \* per connection: the remote end has not disconnected
    quota,          \* per connection: frames the remote end may still send
    menu,           \* frames the remote ends choose from
    events,         \* per connection: events delivered by send_json
    cur,            \* per connection: data of the request being processed
    reqNo,          \* per connection: requests read so far
    reqKinds,       \* per connection: data.get("type") of each request read
    manager,        \* per connection: local variable manager
    call,           \* per connection: the generate_streaming_response call
    invoked,        \* per connection: requests whose orchestrator method ran
    returned,       \* per connection: the values the methods returned
    ollama_client,  \* module-level singleton (NoObj is None)
    prompt_manager, \* module-level singleton (NoObj is None)
    clientsMade,    \* OllamaClient objects constructed
    managersMade,   \* WebsitePromptManager objects constructed
    mgrClient,      \* per manager object: its self.client
    avail,          \* per client object: self._available_models
    initProbes,     \* GET /api/version requests sent by get_ollama_client
    initResult,     \* what the probe of get_ollama_client saw
    hpc,            \* position of the coroutine serving GET /health
    hclient,        \* its local variable client
    base_url,       \* per client object: self.base_url
    rpc,            \* position of the coroutine of the request/response path
    rreq,           \* the call it serves: entry point and arguments
    rclient,        \* the client object the call runs on
    rcall,          \* its generate_streaming_response call
    rresp,          \* what the caller got back
    rquota,         \* calls that may still arrive on that path
    reachable,      \* the inference server answers requests
    serverModels,   \* the models the inference server hosts
    utext,          \* a raw completion handed to the response parsers
    umsgs,          \* a conversation handed to the prompt formatter
    ucode,          \* what _extract_code returned for utext
    ufiles,         \* what _parse_files returned for utext
    uprompt,        \* what _format_messages_for_ollama returned for umsgs
    udone,          \* the functions applied so far
    wrap            \* one use of the stream_ollama_response wrapper

vars == <<pc, inbox, connected, quota, menu, events, cur, reqNo, reqKinds,
          manager,
          call, invoked, returned, ollama_client, prompt_manager,
          clientsMade, managersMade, mgrClient, avail, initProbes,
          initResult, hpc, hclient, base_url, rpc, rreq, rclient, rcall,
          rresp, rquota, reachable, serverModels, utext, umsgs, ucode,
          ufiles, uprompt, udone, wrap>>

connVars == <<inbox, connected, quota, menu>>
singletonVars == <<ollama_client, prompt_manager, clientsMade, managersMade,
                   mgrClient, initProbes, initResult, base_url>>
callVars == <<rpc, rreq, rclient, rcall, rresp, rquota>>
serverVars == <<reachable, serverModels>>
healthVars == <<hpc, hclient>>
unitVars == <<utext, umsgs, ucode, ufiles, uprompt, udone, wrap>>

IdleCall == [model |-> None, calls |-> {}, probeOk |-> FALSE,
             listed |-> NoList, chunks |-> <<>>, response |-> <<>>,
             nlines |-> 0, afterClose |-> 0, err |-> None]

\* the request/response path: no call yet, no call in progress, nothing
\* handed back
NoReq == [entry |-> None, model |-> None, url |-> <<>>]
IdleRCall == [model |-> None, calls |-> {}, probe |-> None,
              post |-> None, listed |-> NoList, body |-> <<>>, pos |-> 0, chunks |-> <<>>,
              response |-> <<>>, fault |-> None, raised |-> None,
              err |-> None, msg |-> <<>>]
NoResp == [outcome |-> None, status |-> 0, key |-> None, data |-> <<>>,
           detail |-> None]

\* stream_ollama_response has not been called.  st is the position of the
\* generator, consumer that of the coroutine iterating it; made and closes
\* count the OllamaClient objects constructed and the calls of close(); late
\* counts the increments yielded after a close
IdleWrap == [st |-> "none", consumer |-> "none", model |-> None,
             made |-> 0, closes |-> 0, body |-> <<>>, pos |-> 0,
             brk |-> FALSE, yielded |-> <<>>, late |-> 0, exc |-> None]

\* no text is under parse, no conversation under formatting, no wrapper in
\* use
NoUnit ==
    /\ wrap = IdleWrap
    /\ utext = <<>>
    /\ umsgs = <<>>
    /\ ucode = <<>>
    /\ ufiles = <<>>
    /\ uprompt = <<>>
    /\ udone = {}

\* state after import of routes/ollama_api.py; the connections in active
\* have been opened by their remote ends, which send frames of menus ms;
\* n calls will arrive on the request/response path
InitPipeline(active, q, ms, n) ==
    /\ pc = [c \in Conns |-> IF c \in active THEN "accept" ELSE "idle"]
    /\ inbox = [c \in Conns |-> <<>>]
    /\ connected = [c \in Conns |-> c \in active]
    /\ quota = [c \in Conns |-> IF c \in active THEN q ELSE 0]
    /\ menu \in ms
    /\ events = [c \in Conns |-> <<>>]
    /\ cur = [c \in Conns |-> NoFrame]
    /\ reqNo = [c \in Conns |-> 0]
    /\ reqKinds = [c \in Conns |-> <<>>]
    /\ manager = [c \in Conns |-> NoObj]
    /\ call = [c \in Conns |-> IdleCall]
    /\ invoked = [c \in Conns |-> {}]
    /\ returned = [c \in Conns |-> {}]
    /\ ollama_client = NoObj
    /\ prompt_manager = NoObj
    /\ clientsMade = 0
    /\ managersMade = 0
    /\ mgrClient = [m2 \in Conns |-> NoObj]
    /\ avail = [k \in ClientIds |-> NoList]
    /\ base_url = [k \in ClientIds |-> <<>>]
    /\ rpc = "idle"
    /\ rreq = NoReq
    /\ rclient = NoObj
    /\ rcall = IdleRCall
    /\ rresp = NoResp
    /\ rquota = n
    /\ initProbes = 0
    /\ initResult = "none"
    /\ hpc = "idle"
    /\ hclient = NoObj
    /\ reachable \in BOOLEAN
    /\ serverModels \in ServerListings

InitWith(active, q, ms, n) == InitPipeline(active, q, ms, n) /\ NoUnit

(* ------------------------- websocket events ---------------------------- *)
\* one JSON message passed to websocket.send_json, tagged with the number
\* of the request it answers
Ev(r, type, tag, data) ==
    [req |-> r, type |-> type, tag |-> tag, data |-> data]

\* "message" of the status event of each _stream_* helper
StatusMessage(t) ==
    CASE t = "html" -> "Generating HTML..."
      [] t = "css" -> "Generating CSS..."
      [] t = "react" -> "Generating React component..."
      [] t = "enhance" -> "Enhancing code..."
      [] t = "fix" -> "Fixing code issues..."

\* key of the "data" mapping of the complete event of each _stream_* helper
ArtifactKey(t) ==
    CASE t = "html" -> "html"
      [] t = "css" -> "css"
      [] t = "react" -> "react"
      [] t = "enhance" -> "enhanced_code"
      [] t = "fix" -> "fixed_code"

\* prefix of the "message" of the error event of each _stream_* helper
FailPrefix(t) ==
    CASE t = "html" -> "HTML generation failed"
      [] t = "css" -> "CSS generation failed"
      [] t = "react" -> "React generation failed"
      [] t = "enhance" -> "Code enhancement failed"
      [] t = "fix" -> "Code fixing failed"

\* websocket.send_json succeeds while the remote end is there and raises
\* once it has disconnected
SendOk(c) == connected[c]

Emit(c, ev) == events' = [events EXCEPT ![c] = Append(@, ev)]

(* --------------------------- singletons -------------------------------- *)
\* variant: the guard is gone, every call constructs and probes
ClientMissing_Always == TRUE

\* get_ollama_client: "if ollama_client is None"
ClientMissing == ollama_client = NoObj

\* get_prompt_manager: "if prompt_manager is None"
ManagerMissing == prompt_manager = NoObj

\* str.rstrip('/') of a URL
RECURSIVE RStripSlash(_)
RStripSlash(u) ==
    IF u # <<>> /\ u[Len(u)] = "/"
    THEN RStripSlash(SubSeq(u, 1, Len(u) - 1))
    ELSE u

\* OllamaClient.__init__: the fields of the new object k
Construct(k, u) ==
    /\ base_url' = [base_url EXCEPT ![k] = RStripSlash(u)]
    /\ avail' = [avail EXCEPT ![k] = NoList]

\* get_prompt_manager after get_ollama_client has returned client k:
\* construct the manager and store it in the global
NewManager(k) ==
    /\ managersMade' = managersMade + 1
    /\ prompt_manager' = managersMade + 1
    /\ mgrClient' = [mgrClient EXCEPT ![managersMade + 1] = k]

\* ... and hand it to the handler
StoreManager(c, k) ==
    /\ NewManager(k)
    /\ manager' = [manager EXCEPT ![c] = managersMade + 1]

\* websocket.accept()
Accept(c) ==
    /\ pc[c] = "accept"
    /\ pc' = [pc EXCEPT ![c] = "gpm"]
    /\ UNCHANGED <<unitVars, callVars, healthVars, connVars, events, cur,
                   reqNo, reqKinds, manager, call, invoked, returned,
                   singletonVars, avail, serverVars>>

\* get_prompt_manager up to its first suspension: either the manager exists,
\* or get_ollama_client returns the existing client at once, or it constructs
\* the client, stores it in the global and suspends in check_connection
GetPromptManager(c) ==
    /\ pc[c] = "gpm"
    /\ IF ~ManagerMissing
       THEN /\ manager' = [manager EXCEPT ![c] = prompt_manager]
            /\ pc' = [pc EXCEPT ![c] = "receive"]
            /\ UNCHANGED <<singletonVars, avail>>
       ELSE IF ClientMissing
       THEN /\ clientsMade' = clientsMade + 1
            /\ ollama_client' = clientsMade + 1
            /\ Construct(clientsMade + 1, OLLAMA_BASE_URL)
            /\ initProbes' = initProbes + 1
            /\ pc' = [pc EXCEPT ![c] = "init_probe"]
            /\ UNCHANGED <<prompt_manager, managersMade, mgrClient,
                           initResult, manager>>
       ELSE /\ StoreManager(c, ollama_client)
            /\ pc' = [pc EXCEPT ![c] = "receive"]
            /\ UNCHANGED <<ollama_client, clientsMade, initProbes,
                           initResult, avail, base_url>>
    /\ UNCHANGED <<unitVars, callVars, healthVars, connVars, events, cur,
                   reqNo, reqKinds, call, invoked, returned, serverVars>>

\* what GET /api/version can do
ProbeOutcomes == IF reachable THEN {"200", "500", "timeout"}
                 ELSE {"network", "timeout"}

\* OllamaClient.check_connection: True iff GET /api/version answers 200;
\* every exception is swallowed and gives False
CheckConnection(o) == o = "200"

\* get_ollama_client resumes after "await ollama_client.check_connection()":
\* the value is discarded, the global is returned, get_prompt_manager
\* constructs and stores the manager
InitProbeReturn(c) ==
    /\ pc[c] = "init_probe"
    /\ \E o \in ProbeOutcomes :
         initResult' = (IF CheckConnection(o) THEN "ok" ELSE "failed")
    /\ StoreManager(c, ollama_client)
    /\ pc' = [pc EXCEPT ![c] = "receive"]
    /\ UNCHANGED <<unitVars, callVars, healthVars, connVars, events, cur,
                   reqNo, reqKinds, call, invoked, returned, ollama_client,
                   clientsMade, initProbes, avail, base_url, serverVars>>

(* ------------------------------ errors --------------------------------- *)
\* exceptions, named by the raise statement they come from
ConnectionErrors == {"conn:unreachable", "conn:list_status",
                     "conn:list_network", "conn:api_status", "conn:timeout",
                     "conn:network", "conn:stream_error"}
ModelErrors == {"model:not_found"}

ErrClass(e) ==
    IF e \in ConnectionErrors THEN "OllamaConnectionError"
    ELSE IF e \in ModelErrors THEN "OllamaModelError"
    ELSE e

(* ------------------------- the receive loop ---------------------------- *)
\* the if/elif chain of websocket_generate_stream takes a _stream_* branch
IsKnown(t) == t \in KnownTypes

\* "while True": once a _stream_* helper has returned, the handler is back
\* at receive_json
AfterAnswer == "receive"

\* variant: an unknown discriminant ends the handler like a protocol fault
AfterUnknown_Fault == "failed"

\* the else branch falls out of the inner try into the next iteration
AfterUnknown == "receive"

\* variant: a frame that is not a JSON object is dropped and the handler
\* reads the next one
AfterMalformed_Skip == "receive"

\* receive_json or data.get raises outside the inner try: the outer
\* "except Exception" logs and the handler returns
AfterMalformed == "failed"

\* variant: the inner except block swallows the failure of its own send_json
\* and the loop goes on to the next receive_json
AfterLostSend_Receive == "receive"

\* the send_json of the inner except block raises inside the except block:
\* the exception leaves the while loop and an outer except clause ends the
\* handler
AfterLostSend == "closed"

\* variant: the generation is started as a task that nobody awaits
AfterStatus_Detached == "receive"

\* a _stream_* helper, having sent its status event, awaits the orchestrator
\* method itself
AfterStatus == "invoke"

Finish(c, nextpc) ==
    /\ pc' = [pc EXCEPT ![c] = nextpc]
    /\ call' = [call EXCEPT ![c] = IdleCall]
    /\ cur' = [cur EXCEPT ![c] = NoFrame]

\* variant: the except block re-raises after its send_json
ErrorHandled_Reraise(c) ==
    /\ pc' = [pc EXCEPT ![c] = "outer_error"]
    /\ UNCHANGED <<call, cur>>

\* variant: the except block ends the handler after its send_json
ErrorHandled_Close(c) == Finish(c, "closed")

\* the except block of a _stream_* helper ends after its send_json: the
\* helper returns normally
ErrorHandled(c) == Finish(c, AfterAnswer)

\* positions at which the handler coroutine has returned: after the outer
\* "except WebSocketDisconnect" and after the outer "except Exception"
Ended == {"closed", "failed"}

\* variant: the exception is swallowed and the helper goes on to send the
\* complete event
Raise_Swallow(c, cl, e) ==
    /\ call' = [call EXCEPT ![c] = [cl EXCEPT !.err = e]]
    /\ pc' = [pc EXCEPT ![c] = "send_complete"]

\* an exception e leaves the try block of a _stream_* helper
Raise(c, cl, e) ==
    /\ call' = [call EXCEPT ![c] = [cl EXCEPT !.err = e]]
    /\ pc' = [pc EXCEPT ![c] = "send_error"]

\* "data = await websocket.receive_json()", the dispatch on data.get("type")
\* and the first send_json of the branch taken
Receive(c) ==
    /\ pc[c] = "receive"
    /\ IF inbox[c] # <<>>
       THEN LET f == Head(inbox[c])
                r == reqNo[c] + 1
            IN  /\ inbox' = [inbox EXCEPT ![c] = Tail(@)]
                /\ IF f.json # "object"
                   THEN \* JSONDecodeError from receive_json or
                        \* AttributeError from data.get: outside the inner
                        \* try, caught by the outer "except Exception"
                        /\ pc' = [pc EXCEPT ![c] = AfterMalformed]
                        /\ UNCHANGED <<events, cur, reqNo, reqKinds, call>>
                   ELSE /\ reqNo' = [reqNo EXCEPT ![c] = r]
                        /\ reqKinds' = [reqKinds EXCEPT
                                          ![c] = Append(@, f.type)]
                        /\ IF IsKnown(f.type)
                           THEN IF SendOk(c)
                                THEN /\ Emit(c, Ev(r, "status",
                                                StatusMessage(f.type), <<>>))
                                     /\ pc' = [pc EXCEPT ![c] = AfterStatus]
                                     /\ cur' = [cur EXCEPT ![c] = f]
                                     /\ UNCHANGED call
                                ELSE /\ pc' = [pc EXCEPT ![c] = "outer_error"]
                                     /\ cur' = [cur EXCEPT ![c] = f]
                                     /\ call' = [call EXCEPT ![c] =
                                          [IdleCall EXCEPT
                                             !.err = "WebSocketDisconnect"]]
                                     /\ UNCHANGED events
                           ELSE IF SendOk(c)
                                THEN /\ Emit(c, Ev(r, "error",
                                                "Unknown request type", <<>>))
                                     /\ Finish(c, AfterUnknown)
                                ELSE /\ pc' = [pc EXCEPT ![c] = "outer_error"]
                                     /\ cur' = [cur EXCEPT ![c] = f]
                                     /\ call' = [call EXCEPT ![c] =
                                          [IdleCall EXCEPT
                                             !.err = "WebSocketDisconnect"]]
                                     /\ UNCHANGED events
       ELSE \* nothing to read: receive_json returns only by raising
            \* WebSocketDisconnect once the remote end is gone
            /\ ~connected[c]
            /\ pc' = [pc EXCEPT ![c] = "closed"]
            /\ UNCHANGED <<inbox, events, cur, reqNo, reqKinds, call>>
    /\ UNCHANGED <<unitVars, callVars, healthVars, connected, quota, menu,
                   manager, invoked, returned, singletonVars, avail,
                   serverVars>>

(* --------------------------- orchestrator ------------------------------ *)
\* css_prompt slices existing_html, react_prompt joins props: both raise
\* TypeError on a value of the wrong type; the other templates only format
PromptRaises(f) == f.type \in {"css", "react"} /\ ~f.ok

\* generate_streaming_response: "if not model_name: model_name = ..."
EffectiveModel(m) == IF m = None THEN OLLAMA_MODEL_NAME ELSE m

\* the client object behind the handler's manager
ClientOf(c) == mgrClient[manager[c]]

\* WebsitePromptManager.generate_*: build the prompt, then enter
\* generate_stream -> generate_streaming_response up to the request of
\* check_connection
Invoke(c) ==
    /\ pc[c] = "invoke"
    /\ invoked' = [invoked EXCEPT ![c] = @ \cup {reqNo[c]}]
    /\ IF PromptRaises(cur[c])
       THEN Raise(c, IdleCall, "TypeError")
       ELSE /\ call' = [call EXCEPT ![c] =
                   [IdleCall EXCEPT !.model = EffectiveModel(cur[c].model),
                                    !.calls = {"version"}]]
            /\ pc' = [pc EXCEPT ![c] = "probe"]
    /\ UNCHANGED <<unitVars, callVars, healthVars, connVars, events, cur,
                   reqNo, reqKinds, manager, returned, singletonVars, avail,
                   serverVars>>

\* ensure_model_available: "if not self._available_models"
Falsy(lst) == lst = NoList \/ lst[1] = {}

\* variant: the value of check_connection is not looked at
ProbePasses_Always(ok) == TRUE

\* generate_streaming_response: "if not await self.check_connection()"
ProbePasses(ok) == ok

\* ensure_model_available: "if model_name not in self._available_models"
ModelListed(m, models) == m \in models

\* ensure_model_available once the list is there, then the POST is sent
CheckModel(c, cl, models) ==
    IF ModelListed(cl.model, models)
    THEN /\ call' = [call EXCEPT ![c] =
                        [cl EXCEPT !.calls = @ \cup {"generate"},
                                   !.listed = <<models>>]]
         /\ pc' = [pc EXCEPT ![c] = "post"]
    ELSE Raise(c, [cl EXCEPT !.listed = <<models>>], "model:not_found")

\* check_connection returns inside generate_streaming_response
ProbeReturn(c) ==
    /\ pc[c] = "probe"
    /\ \E o \in ProbeOutcomes :
         LET ok == CheckConnection(o)
             cl == [call[c] EXCEPT !.probeOk = ok]
         IN  IF ~ProbePasses(ok)
             THEN Raise(c, cl, "conn:unreachable")
             ELSE IF Falsy(avail[ClientOf(c)])
             THEN /\ call' = [call EXCEPT ![c] =
                                 [cl EXCEPT !.calls = @ \cup {"tags"}]]
                  /\ pc' = [pc EXCEPT ![c] = "list"]
             ELSE CheckModel(c, cl, avail[ClientOf(c)][1])
    /\ UNCHANGED <<unitVars, callVars, healthVars, connVars, events, cur,
                   reqNo, reqKinds, manager, invoked, returned, singletonVars,
                   avail, serverVars>>

\* what GET /api/tags can do
ListOutcomes == IF reachable THEN {"200", "500", "timeout"}
                ELSE {"network", "timeout"}

\* list_models returns inside ensure_model_available
ListReturn(c) ==
    /\ pc[c] = "list"
    /\ \E o \in ListOutcomes :
         CASE o = "200" ->
                /\ avail' = [avail EXCEPT ![ClientOf(c)] = <<serverModels>>]
                /\ CheckModel(c, call[c], serverModels)
           [] o = "500" ->
                /\ Raise(c, call[c], "conn:list_status")
                /\ UNCHANGED avail
           [] o \in {"network", "timeout"} ->
                \* httpx.RequestError, of which TimeoutException is a kind
                /\ Raise(c, call[c], "conn:list_network")
                /\ UNCHANGED avail
    /\ UNCHANGED <<unitVars, callVars, healthVars, connVars, events, cur,
                   reqNo, reqKinds, manager, invoked, returned, singletonVars,
                   serverVars>>

\* what POST /api/generate can do before the first line
PostOutcomes == IF reachable THEN {"200", "500", "timeout"}
                ELSE {"network", "timeout"}

\* "async with self.client.stream(...) as response" and the status check
PostReturn(c) ==
    /\ pc[c] = "post"
    /\ \E o \in PostOutcomes :
         CASE o = "200" -> /\ pc' = [pc EXCEPT ![c] = "streaming"]
                           /\ UNCHANGED call
           [] o = "500" -> Raise(c, call[c], "conn:api_status")
           [] o = "timeout" -> Raise(c, call[c], "conn:timeout")
           [] o = "network" -> Raise(c, call[c], "conn:network")
    /\ UNCHANGED <<unitVars, callVars, healthVars, connVars, events, cur,
                   reqNo, reqKinds, manager, invoked, returned, singletonVars,
                   avail, serverVars>>

(* ------------------------ the response stream -------------------------- *)
\* one line of the streamed body as aiter_lines delivers it:
\*   blank     line.strip() is empty
\*   garbage   json.loads raises JSONDecodeError
\*   error     an object with a truthy "error"
\*   nonobject valid JSON that is not an object: data.get raises
\*   json      an object; has: it has a "response" key, resp: its value
Line(k, h, t, d) == [kind |-> k, has |-> h, resp |-> t, done |-> d]
Lines ==
    {Line(k, FALSE, <<>>, FALSE) :
        k \in {"blank", "garbage", "error", "nonobject"}}
    \cup {Line("error", TRUE, t, TRUE) : t \in ChunkTexts}
    \cup {Line("json", FALSE, <<>>, d) : d \in BOOLEAN}
    \cup {Line("json", TRUE, t, d) : t \in ChunkTexts \cup {<<>>},
                                     d \in BOOLEAN}

\* how the body can end other than by a done object
StreamEnds == {"eof", "timeout", "network"}

\* json.loads gave an object
Decoded(ln) == ln.kind \in {"json", "error"}

\* variant: a line that does not decode ends the stream
LineFault_GarbageFatal(ln) ==
    CASE ln.kind = "error" -> "conn:stream_error"
      [] ln.kind = "nonobject" -> "AttributeError"
      [] ln.kind = "garbage" -> "JSONDecodeError"
      [] OTHER -> None

\* variant: the error payload is not looked at
LineFault_ErrorIgnored(ln) ==
    CASE ln.kind = "nonobject" -> "AttributeError"
      [] OTHER -> None

\* the exception the loop body raises on this line, None when it raises
\* none: "if data.get('error'): raise OllamaConnectionError"; data.get on a
\* value that is not a dict; JSONDecodeError is caught and the loop continues
LineFault(ln) ==
    CASE ln.kind = "error" -> "conn:stream_error"
      [] ln.kind = "nonobject" -> "AttributeError"
      [] OTHER -> None

\* variant: the done test comes first and the text of a done object is
\* dropped
Yields_NotOnDone(ln) ==
    LineFault(ln) = None /\ Decoded(ln) /\ ln.has /\ ln.resp # <<>> /\ ~ln.done

\* variant: the emptiness test is gone
Yields_Any(ln) == LineFault(ln) = None /\ Decoded(ln) /\ ln.has

\* "if 'response' in data: chunk = data['response']; if chunk: yield chunk"
Yields(ln) ==
    LineFault(ln) = None /\ Decoded(ln) /\ ln.has /\ ln.resp # <<>>

\* variant: the done flag is not looked at
Breaks_Never(ln) == FALSE

\* "if data.get('done', False): break"
Breaks(ln) == LineFault(ln) = None /\ Decoded(ln) /\ ln.done

\* variant: the accumulator is one buffer shared by all the calls in
\* progress, so an increment is added to the longest text accumulated so far
Accumulate_Shared(full, chunk) ==
    LET c == CHOOSE k \in Conns :
                 \A j \in Conns :
                     Len(call[j].response) <= Len(call[k].response)
    IN  call[c].response \o chunk

\* variant: the increment replaces what was accumulated
Accumulate_Last(full, chunk) == chunk

\* "response += chunk" / "full_response += chunk"
Accumulate(full, chunk) == full \o chunk

\* the orchestrator method returns: the handler goes on to send_json
MethodReturns(c, cl) ==
    /\ call' = [call EXCEPT ![c] = cl]
    /\ returned' = [returned EXCEPT ![c] =
                       @ \cup {[req |-> reqNo[c],
                                value |-> ExtractCode(cl.response)]}]
    /\ pc' = [pc EXCEPT ![c] = "send_complete"]

\* one iteration of "async for line in response.aiter_lines()" together with
\* the "response += chunk" of the orchestrator loop that consumes the yield
StreamLine(c) ==
    /\ pc[c] = "streaming"
    /\ call[c].nlines < MaxLines
    /\ \E ln \in Lines :
         LET cl == [call[c] EXCEPT
                      !.nlines = @ + 1,
                      !.chunks = IF Yields(ln) THEN Append(@, ln.resp) ELSE @,
                      !.response = IF Yields(ln)
                                   THEN Accumulate(@, ln.resp) ELSE @,
                      !.afterClose = IF Yields(ln) /\ ~connected[c]
                                     THEN @ + 1 ELSE @]
         IN  IF LineFault(ln) # None
             THEN /\ Raise(c, cl, LineFault(ln))
                  /\ UNCHANGED returned
             ELSE IF Breaks(ln)
             THEN MethodReturns(c, cl)
             ELSE /\ call' = [call EXCEPT ![c] = cl]
                  /\ UNCHANGED <<pc, returned>>
    /\ UNCHANGED <<unitVars, callVars, healthVars, connVars, events, cur,
                   reqNo, reqKinds, manager, invoked, singletonVars, avail,
                   serverVars>>

\* the body ends: the server closes it, or httpx raises
StreamEnd(c) ==
    /\ pc[c] = "streaming"
    /\ \E o \in StreamEnds :
         CASE o = "eof" -> MethodReturns(c, call[c])
           [] o = "timeout" -> /\ Raise(c, call[c], "conn:timeout")
                               /\ UNCHANGED returned
           [] o = "network" -> /\ Raise(c, call[c], "conn:network")
                               /\ UNCHANGED returned
    /\ UNCHANGED <<unitVars, callVars, healthVars, connVars, events, cur,
                   reqNo, reqKinds, manager, invoked, singletonVars, avail,
                   serverVars>>

(* --------------------- answering on the websocket ---------------------- *)
\* _stream_*: send_json of the complete event, inside the try block
SendComplete(c) ==
    /\ pc[c] = "send_complete"
    /\ IF SendOk(c)
       THEN /\ Emit(c, Ev(reqNo[c], "complete", ArtifactKey(cur[c].type),
                          ExtractCode(call[c].response)))
            /\ Finish(c, AfterAnswer)
       ELSE /\ Raise(c, call[c], "WebSocketDisconnect")
            /\ UNCHANGED <<events, cur>>
    /\ UNCHANGED <<unitVars, callVars, healthVars, connVars, reqNo, reqKinds,
                   manager, invoked, returned, singletonVars, avail,
                   serverVars>>

\* _stream_*: "except Exception as e" sends the error event
SendError(c) ==
    /\ pc[c] = "send_error"
    /\ IF SendOk(c)
       THEN /\ Emit(c, Ev(reqNo[c], "error", FailPrefix(cur[c].type),
                          <<call[c].err>>))
            /\ ErrorHandled(c)
       ELSE /\ pc' = [pc EXCEPT ![c] = "outer_error"]
            /\ call' = [call EXCEPT ![c].err = "WebSocketDisconnect"]
            /\ UNCHANGED <<events, cur>>
    /\ UNCHANGED <<unitVars, callVars, healthVars, connVars, reqNo, reqKinds,
                   manager, invoked, returned, singletonVars, avail,
                   serverVars>>

\* websocket_generate_stream: the inner "except Exception as e" sends an
\* error event; if that send raises too, the exception of a send to a remote
\* end that is gone leaves the loop and is caught as WebSocketDisconnect
OuterError(c) ==
    /\ pc[c] = "outer_error"
    /\ IF SendOk(c)
       THEN /\ Emit(c, Ev(reqNo[c], "error", "Error processing",
                          <<call[c].err>>))
            /\ Finish(c, AfterAnswer)
       ELSE /\ Finish(c, AfterLostSend)
            /\ UNCHANGED events
    /\ UNCHANGED <<unitVars, callVars, healthVars, connVars, reqNo, reqKinds,
                   manager, invoked, returned, singletonVars, avail,
                   serverVars>>

(* ---------------------------- environment ------------------------------ *)
\* the remote end sends a frame
ClientSend(c) ==
    /\ pc[c] # "idle"
    /\ connected[c]
    /\ quota[c] > 0
    /\ Len(inbox[c]) < MaxInbox
    /\ \E f \in menu : inbox' = [inbox EXCEPT ![c] = Append(@, f)]
    /\ quota' = [quota EXCEPT ![c] = @ - 1]
    /\ UNCHANGED <<unitVars, callVars, healthVars, pc, connected, menu,
                   events, cur, reqNo, reqKinds, manager, call, invoked,
                   returned, singletonVars, avail, serverVars>>

\* the remote end disconnects
ClientDisconnect(c) ==
    /\ pc[c] # "idle"
    /\ connected[c]
    /\ connected' = [connected EXCEPT ![c] = FALSE]
    /\ UNCHANGED <<unitVars, callVars, healthVars, pc, inbox, quota, menu,
                   events, cur, reqNo, reqKinds, manager, call, invoked,
                   returned, singletonVars, avail, serverVars>>

\* the inference server goes down or comes up
ServerFlip ==
    /\ reachable' = ~reachable
    /\ UNCHANGED <<unitVars, callVars, healthVars, pc, connVars, events, cur,
                   reqNo, reqKinds, manager, call, invoked, returned,
                   singletonVars, avail, serverModels>>

\* a model is pulled or removed on the inference server
ServerModelsChange ==
    /\ \E s \in ServerListings \ {serverModels} : serverModels' = s
    /\ UNCHANGED <<unitVars, callVars, healthVars, pc, connVars, events, cur,
                   reqNo, reqKinds, manager, call, invoked, returned,
                   singletonVars, avail, reachable>>

(* ------------------------------ GET /health --------------------------- *)
handlerVars == <<pc, connVars, events, cur, reqNo, reqKinds, manager, call,
                 invoked, returned>>

\* health_check up to its first suspension: get_ollama_client either
\* constructs the client and suspends in check_connection, or returns the
\* existing client and list_models sends GET /api/tags
HealthStart ==
    /\ hpc = "idle"
    /\ IF ClientMissing
       THEN /\ clientsMade' = clientsMade + 1
            /\ ollama_client' = clientsMade + 1
            /\ Construct(clientsMade + 1, OLLAMA_BASE_URL)
            /\ initProbes' = initProbes + 1
            /\ hpc' = "init_probe"
            /\ UNCHANGED hclient
       ELSE /\ hclient' = ollama_client
            /\ hpc' = "list"
            /\ UNCHANGED <<ollama_client, clientsMade, initProbes, avail,
                           base_url>>
    /\ UNCHANGED <<unitVars, callVars, handlerVars, prompt_manager,
                   managersMade, mgrClient, initResult, serverVars>>

\* get_ollama_client resumes in health_check: the probe's value is
\* discarded, the global is returned, list_models sends GET /api/tags
HealthProbeReturn ==
    /\ hpc = "init_probe"
    /\ \E o \in ProbeOutcomes :
         initResult' = (IF CheckConnection(o) THEN "ok" ELSE "failed")
    /\ hclient' = ollama_client
    /\ hpc' = "list"
    /\ UNCHANGED <<unitVars, callVars, handlerVars, ollama_client,
                   prompt_manager, clientsMade, managersMade, mgrClient,
                   initProbes, avail, base_url, serverVars>>

\* list_models returns in health_check; on 200 it has stored the listing in
\* the client; the response goes out and the coroutine ends
HealthListReturn ==
    /\ hpc = "list"
    /\ \E o \in ListOutcomes :
         IF o = "200"
         THEN avail' = [avail EXCEPT ![hclient] = <<serverModels>>]
         ELSE UNCHANGED avail
    /\ hpc' = "idle"
    /\ hclient' = NoObj
    /\ UNCHANGED <<unitVars, callVars, handlerVars, singletonVars, serverVars>>

(* --------------------- the request/response path ---------------------- *)
\* One coroutine serves a call that returns its whole result at once: a POST
\* endpoint of the router, or a direct call of the client's
\* generate_completion.  Its generate_streaming_response call keeps the body
\* the server answered with, how far it was read and what was yielded.
\* POST endpoints, named by the orchestrator method they await
Endpoints == KnownTypes \cup {"website"}
\* entry points of the client called without the router
DirectEntries == {"generate_completion"}
\* addresses a direct caller may construct a client for
BaseUrls == { OLLAMA_BASE_URL \o <<"/">>,
              <<"http://", "127.0.0.1", ":11434">>,
              <<"http://", "10.0.0.5", ":11434">> }
\* hosts that are the machine itself
LoopbackHosts == {"localhost", "127.0.0.1"}

\* the bodies the server may answer POST /api/generate with
Bodies == UNION {[1..n -> Lines] : n \in 0..MaxLines}

\* key of "data" in the ApiResponse of each endpoint
ResponseKey(e) == IF e = "website" THEN "website_files" ELSE ArtifactKey(e)

\* what the orchestrator method of endpoint e returns for a drained stream
MethodResult(e, response) ==
    IF e = "website" THEN ParseFiles(response) ELSE ExtractCode(response)

\* variant: the except clause wraps what it caught
Reraise_Wrapped(e) == "RuntimeError"

\* WebsitePromptManager.*: "except Exception as e: logger.error(...); raise"
Reraise(e) == e

\* variant: the first except clause names OllamaConnectionError only
HttpStatus_ConnOnly(e) ==
    IF ErrClass(e) = "OllamaConnectionError" THEN 503 ELSE 500

\* the endpoints' except clauses: OllamaConnectionError and OllamaModelError
\* give 503, any other exception 500
HttpStatus(e) ==
    IF ErrClass(e) \in {"OllamaConnectionError", "OllamaModelError"}
    THEN 503 ELSE 500

\* what the caller of entry point en gets when exception e comes out
Failure(en, e) ==
    IF en \in Endpoints
    THEN [outcome |-> "HTTPException", status |-> HttpStatus(Reraise(e)),
          key |-> None, data |-> <<>>, detail |-> Reraise(e)]
    ELSE [outcome |-> "raised", status |-> 0, key |-> None, data |-> <<>>,
          detail |-> e]

\* what the caller of entry point en gets when the stream was drained
Success(en, response) ==
    IF en \in Endpoints
    THEN [outcome |-> "ApiResponse", status |-> 200,
          key |-> ResponseKey(en), data |-> MethodResult(en, response),
          detail |-> None]
    ELSE [outcome |-> "Completion", status |-> 0, key |-> "content",
          data |-> response, detail |-> None]

\* the names of a list of models in the order of the list, which is some
\* fixed order of the set
RECURSIVE NamesOf(_)
NamesOf(models) ==
    IF models = {} THEN <<>>
    ELSE LET m == CHOOSE x \in models : TRUE
         IN  <<m>> \o NamesOf(models \ {m})

\* str(e) of an httpx exception, and the texts taken from a server response
HTTPX_ERROR_TEXT == "<str(e)>"
STATUS_CODE_TEXT == "<status_code>"
SERVER_TEXT == "<server text>"
INTERPRETER_TEXT == "<interpreter message>"

\* the message of exception e raised by a client of address url in a call
\* for model m whose _available_models is listed
ErrorMessage(e, url, m, listed) ==
    CASE e = "conn:unreachable" ->
           <<"Cannot connect to Ollama server. Please ensure Ollama is running on ">>
           \o url \o <<". Start with: ollama serve">>
      [] e = "conn:list_status" ->
           <<"Failed to list models: ", STATUS_CODE_TEXT>>
      [] e = "conn:list_network" ->
           <<"Cannot connect to Ollama server: ", HTTPX_ERROR_TEXT>>
      [] e = "conn:api_status" ->
           <<"Ollama API error ", STATUS_CODE_TEXT, ": ", SERVER_TEXT>>
      [] e = "conn:stream_error" -> <<"Ollama error: ", SERVER_TEXT>>
      [] e = "conn:timeout" ->
           <<"Timeout waiting for response from ", m, ". ",
             "This might indicate the model is too large for your system or needs more time.">>
      [] e = "conn:network" ->
           <<"Network error communicating with Ollama: ", HTTPX_ERROR_TEXT>>
      [] e = "model:not_found" ->
           <<NL, "Model '", m, "' not found in Ollama.", NL,
             "Available models: ">>
           \o (IF Falsy(listed) THEN <<"none">>
               ELSE Join([i \in 1..Len(NamesOf(listed[1])) |->
                             <<NamesOf(listed[1])[i]>>], ", "))
           \o <<NL, NL, "To install the model, run:", NL,
                "    ollama pull ", m, NL, NL,
                "For the recommended models in this project, run:", NL,
                "    ollama pull ", "llama3.1:3b", NL,
                "    ollama pull ", "gpt-20b", "  # if available", NL>>
      [] OTHER -> \* an exception the interpreter raised
           <<INTERPRETER_TEXT>>

\* exception e, caused by outcome f of a request to the server, leaves
\* generate_streaming_response and goes up to the caller
RFail(cl, e, f) ==
    /\ rcall' = [cl EXCEPT !.fault = f, !.raised = e,
                           !.err = Failure(rreq.entry, e).detail,
                           !.msg = ErrorMessage(e, base_url[rclient],
                                                cl.model, cl.listed)]
    /\ rresp' = Failure(rreq.entry, e)
    /\ rpc' = "idle"

\* the stream is drained: the method returns and the caller gets the result
RReturn(cl) ==
    /\ rcall' = cl
    /\ rresp' = Success(rreq.entry, cl.response)
    /\ rpc' = "idle"

\* generate_streaming_response of model argument m up to the request of
\* check_connection
BeginCall(m) ==
    /\ rcall' = [IdleRCall EXCEPT !.model = EffectiveModel(m),
                                  !.calls = {"version"}]
    /\ rpc' = "probe"

\* a POST endpoint up to its first suspension: get_prompt_manager as in
\* GetPromptManager, then the orchestrator method builds the prompt (the
\* request model has validated the argument types) and enters the client
HttpStart ==
    /\ rpc = "idle"
    /\ rquota > 0
    /\ rquota' = rquota - 1
    /\ rresp' = NoResp
    /\ \E e \in Endpoints, m \in ModelNames :
         /\ rreq' = [entry |-> e, model |-> m, url |-> <<>>]
         /\ IF ~ManagerMissing
            THEN /\ rclient' = mgrClient[prompt_manager]
                 /\ BeginCall(m)
                 /\ UNCHANGED <<singletonVars, avail>>
            ELSE IF ClientMissing
            THEN /\ clientsMade' = clientsMade + 1
                 /\ ollama_client' = clientsMade + 1
                 /\ Construct(clientsMade + 1, OLLAMA_BASE_URL)
                 /\ initProbes' = initProbes + 1
                 /\ rpc' = "init_probe"
                 /\ rcall' = IdleRCall
                 /\ rclient' = NoObj
                 /\ UNCHANGED <<prompt_manager, managersMade, mgrClient,
                                initResult>>
            ELSE /\ NewManager(ollama_client)
                 /\ rclient' = ollama_client
                 /\ BeginCall(m)
                 /\ UNCHANGED <<ollama_client, clientsMade, initProbes,
                                initResult, avail, base_url>>
    /\ UNCHANGED <<unitVars, handlerVars, healthVars, serverVars>>

\* get_ollama_client resumes inside the endpoint: the probe's value is
\* discarded, the manager is built and its method enters the client
HttpInitProbeReturn ==
    /\ rpc = "init_probe"
    /\ \E o \in ProbeOutcomes :
         initResult' = (IF CheckConnection(o) THEN "ok" ELSE "failed")
    /\ NewManager(ollama_client)
    /\ rclient' = ollama_client
    /\ BeginCall(rreq.model)
    /\ UNCHANGED <<unitVars, handlerVars, healthVars, serverVars, rreq, rresp,
                   rquota, ollama_client, clientsMade, initProbes, avail,
                   base_url>>

\* a direct caller constructs a client of its own for address u and awaits
\* generate_completion on it
DirectStart ==
    /\ rpc = "idle"
    /\ rquota > 0
    /\ rquota' = rquota - 1
    /\ rresp' = NoResp
    /\ clientsMade' = clientsMade + 1
    /\ rclient' = clientsMade + 1
    /\ \E en \in DirectEntries, u \in BaseUrls, m \in ModelNames :
         /\ rreq' = [entry |-> en, model |-> m, url |-> u]
         /\ Construct(clientsMade + 1, u)
         /\ BeginCall(m)
    /\ UNCHANGED <<unitVars, handlerVars, healthVars, serverVars,
                   ollama_client, prompt_manager, managersMade, mgrClient,
                   initProbes, initResult>>

\* ensure_model_available once the list is there, then the POST is sent
RCheckModel(cl, models) ==
    IF ModelListed(cl.model, models)
    THEN /\ rcall' = [cl EXCEPT !.calls = @ \cup {"generate"},
                                !.listed = <<models>>]
         /\ rpc' = "post"
         /\ UNCHANGED rresp
    ELSE RFail([cl EXCEPT !.listed = <<models>>], "model:not_found", None)

\* check_connection returns inside generate_streaming_response
CallProbeReturn ==
    /\ rpc = "probe"
    /\ \E o \in ProbeOutcomes :
         LET cl == [rcall EXCEPT !.probe = o]
         IN  IF ~ProbePasses(CheckConnection(o))
             THEN RFail(cl, "conn:unreachable", o)
             ELSE IF Falsy(avail[rclient])
             THEN /\ rcall' = [cl EXCEPT !.calls = @ \cup {"tags"}]
                  /\ rpc' = "list"
                  /\ UNCHANGED rresp
             ELSE RCheckModel(cl, avail[rclient][1])
    /\ UNCHANGED <<unitVars, handlerVars, healthVars, serverVars,
                   singletonVars, avail, rreq, rclient, rquota>>

\* list_models returns inside ensure_model_available
CallListReturn ==
    /\ rpc = "list"
    /\ \E o \in ListOutcomes :
         CASE o = "200" ->
                /\ avail' = [avail EXCEPT ![rclient] = <<serverModels>>]
                /\ RCheckModel(rcall, serverModels)
           [] o = "500" ->
                /\ RFail(rcall, "conn:list_status", o)
                /\ UNCHANGED avail
           [] o \in {"network", "timeout"} ->
                /\ RFail(rcall, "conn:list_network", o)
                /\ UNCHANGED avail
    /\ UNCHANGED <<unitVars, handlerVars, healthVars, serverVars,
                   singletonVars, rreq, rclient, rquota>>

\* variant: the status of the answer is not looked at
PostFault_StatusIgnored(o) ==
    CASE o \in {"200", "500"} -> None
      [] o = "timeout" -> "conn:timeout"
      [] o = "network" -> "conn:network"

\* the exception raised on outcome o of the POST, None when the body is
\* read: "if response.status_code != 200: raise OllamaConnectionError", and
\* the httpx exceptions of the request
PostFault(o) ==
    CASE o = "200" -> None
      [] o = "500" -> "conn:api_status"
      [] o = "timeout" -> "conn:timeout"
      [] o = "network" -> "conn:network"

\* "async with self.client.stream(...) as response" and the status check;
\* when the body is read, the server has chosen the body it will send
CallPostReturn ==
    /\ rpc = "post"
    /\ \E o \in PostOutcomes :
         LET cl == [rcall EXCEPT !.post = o]
         IN  IF PostFault(o) = None
             THEN /\ \E b \in Bodies : rcall' = [cl EXCEPT !.body = b]
                  /\ rpc' = "streaming"
                  /\ UNCHANGED rresp
             ELSE RFail(cl, PostFault(o), o)
    /\ UNCHANGED <<unitVars, handlerVars, healthVars, serverVars,
                   singletonVars, avail, rreq, rclient, rquota>>

\* one iteration of "async for line in response.aiter_lines()" on the next
\* line of the body, together with the "+=" of the loop that consumes the
\* yield
CallStreamLine ==
    /\ rpc = "streaming"
    /\ rcall.pos < Len(rcall.body)
    /\ LET ln == rcall.body[rcall.pos + 1]
           cl == [rcall EXCEPT
                    !.pos = @ + 1,
                    !.chunks = IF Yields(ln) THEN Append(@, ln.resp) ELSE @,
                    !.response = IF Yields(ln)
                                 THEN Accumulate(@, ln.resp) ELSE @]
       IN  IF LineFault(ln) # None
           THEN RFail(cl, LineFault(ln), "payload")
           ELSE IF Breaks(ln)
           THEN RReturn(cl)
           ELSE /\ rcall' = cl
                /\ UNCHANGED <<rpc, rresp>>
    /\ UNCHANGED <<unitVars, handlerVars, healthVars, serverVars,
                   singletonVars, avail, rreq, rclient, rquota>>

\* the body has been read to its last line: the server closes it, or httpx
\* raises
CallStreamEnd ==
    /\ rpc = "streaming"
    /\ rcall.pos = Len(rcall.body)
    /\ \E o \in StreamEnds :
         CASE o = "eof" -> RReturn(rcall)
           [] o = "timeout" -> RFail(rcall, "conn:timeout", o)
           [] o = "network" -> RFail(rcall, "conn:network", o)
    /\ UNCHANGED <<unitVars, handlerVars, healthVars, serverVars,
                   singletonVars, avail, rreq, rclient, rquota>>

(* --------------------- parsers and formatter alone --------------------- *)
\* the orchestrator hands the accumulated text to _extract_code
ApplyExtractCode ==
    /\ "extract" \notin udone
    /\ ucode' = ExtractCode(utext)
    /\ udone' = udone \cup {"extract"}
    /\ UNCHANGED <<utext, umsgs, ufiles, uprompt, wrap>>
    /\ UNCHANGED <<callVars, handlerVars, healthVars, serverVars,
                   singletonVars, avail>>

\* create_website hands the accumulated text to _parse_files
ApplyParseFiles ==
    /\ "parse" \notin udone
    /\ ufiles' = ParseFiles(utext)
    /\ udone' = udone \cup {"parse"}
    /\ UNCHANGED <<utext, umsgs, ucode, uprompt, wrap>>
    /\ UNCHANGED <<callVars, handlerVars, healthVars, serverVars,
                   singletonVars, avail>>

\* generate_streaming_response formats its messages
ApplyFormat ==
    /\ "format" \notin udone
    /\ uprompt' = FormatMessages(umsgs)
    /\ udone' = udone \cup {"format"}
    /\ UNCHANGED <<utext, umsgs, ucode, ufiles, wrap>>
    /\ UNCHANGED <<callVars, handlerVars, healthVars, serverVars,
                   singletonVars, avail>>

(* ------------------- the stream_ollama_response wrapper ---------------- *)
\* everything but the wrapper
wrapFrame ==
    UNCHANGED <<utext, umsgs, ucode, ufiles, uprompt, udone, callVars,
                handlerVars, healthVars, serverVars, singletonVars, avail>>

\* an exception e reaches the try statement of the wrapper: the finally
\* clause is entered with e pending
WrapRaise(e) == wrap' = [wrap EXCEPT !.st = "closing", !.exc = e]

\* a coroutine calls stream_ollama_response(...): it gets the generator
\* object, no line of the body has run
WrapCall ==
    /\ wrap.st = "none"
    /\ \E m \in ModelNames :
         wrap' = [wrap EXCEPT !.st = "created", !.consumer = "iterating",
                              !.model = EffectiveModel(m)]
    /\ wrapFrame

\* the consumer awaits __anext__: the first time the body constructs the
\* client and the inner generator runs up to the request of
\* check_connection; later the generator resumes after "yield chunk", and
\* the inner one after its own yield, at "if data.get('done'): break"
WrapNext ==
    /\ wrap.consumer = "iterating"
    /\ wrap.st \in {"created", "suspended"}
    /\ wrap' = IF wrap.st = "created"
               THEN [wrap EXCEPT !.st = "probe", !.made = @ + 1]
               ELSE [wrap EXCEPT !.st = IF wrap.brk THEN "closing"
                                        ELSE "streaming"]
    /\ wrapFrame

\* check_connection returns inside the inner generator
WrapProbeReturn ==
    /\ wrap.st = "probe"
    /\ \E o \in ProbeOutcomes :
         IF ProbePasses(CheckConnection(o))
         THEN wrap' = [wrap EXCEPT !.st = "list"]
         ELSE WrapRaise("conn:unreachable")
    /\ wrapFrame

\* list_models returns inside ensure_model_available: the client is new, its
\* list of models is not there yet
WrapListReturn ==
    /\ wrap.st = "list"
    /\ \E o \in ListOutcomes :
         CASE o = "200" ->
                IF ModelListed(wrap.model, serverModels)
                THEN wrap' = [wrap EXCEPT !.st = "post"]
                ELSE WrapRaise("model:not_found")
           [] o = "500" -> WrapRaise("conn:list_status")
           [] o \in {"network", "timeout"} -> WrapRaise("conn:list_network")
    /\ wrapFrame

\* "async with self.client.stream(...) as response" and the status check
WrapPostReturn ==
    /\ wrap.st = "post"
    /\ \E o \in PostOutcomes :
         CASE o = "200" -> \E b \in Bodies :
                              wrap' = [wrap EXCEPT !.st = "streaming",
                                                   !.body = b]
           [] o = "500" -> WrapRaise("conn:api_status")
           [] o = "timeout" -> WrapRaise("conn:timeout")
           [] o = "network" -> WrapRaise("conn:network")
    /\ wrapFrame

\* one iteration of the inner "async for line": an increment goes through
\* the wrapper's "yield chunk" to the consumer and both generators are
\* suspended; a done line without increment ends the loops
WrapLine ==
    /\ wrap.st = "streaming"
    /\ wrap.pos < Len(wrap.body)
    /\ LET ln == wrap.body[wrap.pos + 1]
           w == [wrap EXCEPT !.pos = @ + 1]
       IN  IF LineFault(ln) # None
           THEN wrap' = [w EXCEPT !.st = "closing", !.exc = LineFault(ln)]
           ELSE IF Yields(ln)
           THEN wrap' = [w EXCEPT
                           !.st = "suspended",
                           !.brk = Breaks(ln),
                           !.yielded = Append(@, ln.resp),
                           !.late = IF wrap.closes > 0 THEN @ + 1 ELSE @]
           ELSE IF Breaks(ln)
           THEN wrap' = [w EXCEPT !.st = "closing"]
           ELSE wrap' = w
    /\ wrapFrame

\* the body has been read to its last line
WrapEnd ==
    /\ wrap.st = "streaming"
    /\ wrap.pos = Len(wrap.body)
    /\ \E o \in StreamEnds :
         CASE o = "eof" -> wrap' = [wrap EXCEPT !.st = "closing"]
           [] o = "timeout" -> WrapRaise("conn:timeout")
           [] o = "network" -> WrapRaise("conn:network")
    /\ wrapFrame

\* "finally: await client.close()"; then the generator is finished: the
\* consumer gets StopAsyncIteration or the pending exception
WrapClose ==
    /\ wrap.st = "closing"
    /\ wrap' = [wrap EXCEPT
                  !.closes = @ + 1,
                  !.st = IF wrap.exc = None THEN "done" ELSE "raised",
                  !.consumer = IF @ = "iterating" THEN "finished" ELSE @]
    /\ wrapFrame

\* the consumer leaves its "async for" (break, return, an exception of its
\* own) or never iterates: the generator stays suspended where it is
WrapAbandon ==
    /\ wrap.consumer = "iterating"
    /\ wrap.st \in {"created", "suspended"}
    /\ wrap' = [wrap EXCEPT !.consumer = "abandoned"]
    /\ wrapFrame

\* the consumer's task is cancelled while it awaits __anext__:
\* CancelledError is raised at the await the generator is suspended in
WrapCancel ==
    /\ wrap.consumer = "iterating"
    /\ wrap.st \in {"probe", "list", "post", "streaming"}
    /\ wrap' = [wrap EXCEPT !.consumer = "abandoned", !.st = "closing",
                            !.exc = "CancelledError"]
    /\ wrapFrame

\* the abandoned generator is finalized (it is garbage collected while the
\* loop runs, or the loop shuts its generators down): aclose() raises
\* GeneratorExit at "yield chunk".  Nothing in the wrapper or its consumers
\* calls aclose(); whether and when this happens is up to the runtime
WrapFinalize ==
    /\ wrap.consumer = "abandoned"
    /\ wrap.st = "suspended"
    /\ WrapRaise("GeneratorExit")
    /\ wrapFrame

(* --------------------------- specifications ---------------------------- *)
\* one connection, whose remote end asks for one kind of generation
Init == InitWith({1}, MaxReqs, {MenuFor(k) : k \in KnownTypes}, 0)

Next ==
    \/ \E c \in Conns : Accept(c)
    \/ \E c \in Conns : GetPromptManager(c)
    \/ \E c \in Conns : InitProbeReturn(c)
    \/ \E c \in Conns : Receive(c)
    \/ \E c \in Conns : Invoke(c)
    \/ \E c \in Conns : ProbeReturn(c)
    \/ \E c \in Conns : ListReturn(c)
    \/ \E c \in Conns : PostReturn(c)
    \/ \E c \in Conns : StreamLine(c)
    \/ \E c \in Conns : StreamEnd(c)
    \/ \E c \in Conns : SendComplete(c)
    \/ \E c \in Conns : SendError(c)
    \/ \E c \in Conns : OuterError(c)
    \/ \E c \in Conns : ClientSend(c)
    \/ \E c \in Conns : ClientDisconnect(c)
    \/ ServerFlip
    \/ ServerModelsChange

Spec == Init /\ [][Next]_vars

\* one connection whose remote end sends one frame; every step of the
\* handler coroutine that can run does run, and the inference server answers
\* every request in flight and ends every stream it has begun
InitLive == InitWith({1}, 1, {MenuFor(k) : k \in KnownTypes}, 0)

HandlerStep(c) ==
    \/ Accept(c)
    \/ GetPromptManager(c)
    \/ InitProbeReturn(c)
    \/ Receive(c)
    \/ Invoke(c)
    \/ ProbeReturn(c)
    \/ ListReturn(c)
    \/ PostReturn(c)
    \/ StreamLine(c)
    \/ StreamEnd(c)
    \/ SendComplete(c)
    \/ SendError(c)
    \/ OuterError(c)

SpecLive ==
    InitLive /\ [][Next]_vars /\ \A c \in Conns : WF_vars(HandlerStep(c))

\* start-up: every connection is open and GET /health requests arrive; the
\* coroutines race for the singletons; no remote end sends a frame
InitShared == InitWith(Conns, 0, {{}}, 0)

NextShared ==
    \/ \E c \in Conns : Accept(c)
    \/ \E c \in Conns : GetPromptManager(c)
    \/ \E c \in Conns : InitProbeReturn(c)
    \/ \E c \in Conns : Receive(c)
    \/ \E c \in Conns : ClientDisconnect(c)
    \/ HealthStart
    \/ HealthProbeReturn
    \/ HealthListReturn
    \/ ServerFlip
    \/ ServerModelsChange

SpecShared == InitShared /\ [][NextShared]_vars

\* single calls: either calls arrive on the request/response path, or one
\* websocket connection is open whose remote end sends one frame
InitApi ==
    \/ InitWith({}, 0, {{}}, MaxCalls)
    \/ InitWith({1}, 1, {MenuFor("css")}, 0)

NextApi ==
    \/ Next
    \/ HttpStart
    \/ HttpInitProbeReturn
    \/ DirectStart
    \/ CallProbeReturn
    \/ CallListReturn
    \/ CallPostReturn
    \/ CallStreamLine
    \/ CallStreamEnd

SpecApi == InitApi /\ [][NextApi]_vars

\* two connections, whose remote ends each ask for one html page, generate
\* at the same time over the singleton manager and its client
HtmlFrame == Frame("object", "html", None, TRUE)

InitPair == InitWith({1, 2}, 1, {{HtmlFrame}}, 0)

NextPair ==
    \/ \E c \in Conns : Accept(c)
    \/ \E c \in Conns : GetPromptManager(c)
    \/ \E c \in Conns : InitProbeReturn(c)
    \/ \E c \in Conns : ClientSend(c)
    \/ \E c \in Conns : Receive(c)
    \/ \E c \in Conns : Invoke(c)
    \/ \E c \in Conns : ProbeReturn(c)
    \/ \E c \in Conns : ListReturn(c)
    \/ \E c \in Conns : PostReturn(c)
    \/ \E c \in Conns : StreamLine(c)
    \/ \E c \in Conns : StreamEnd(c)
    \/ \E c \in Conns : SendComplete(c)
    \/ \E c \in Conns : SendError(c)

SpecPair == InitPair /\ [][NextPair]_vars

\* the parsers applied to a completion, the formatter to a conversation
InitText ==
    /\ InitPipeline({}, 0, {{}}, 0)
    /\ ~reachable
    /\ serverModels = {}
    /\ wrap = IdleWrap
    /\ \/ utext \in Responses /\ umsgs = <<>>
       \/ utext = <<>> /\ umsgs \in Conversations
    /\ ucode = <<>>
    /\ ufiles = <<>>
    /\ uprompt = <<>>
    /\ udone = {}

NextText ==
    \/ ApplyExtractCode
    \/ ApplyParseFiles
    \/ ApplyFormat

SpecText == InitText /\ [][NextText]_vars

\* one use of the stream_ollama_response wrapper.  The steps of the
\* generator run once they can (the event loop runs it, the server answers
\* and ends its stream) and a consumer that is iterating goes on iterating
\* unless it abandons the generator; the finalization of an abandoned
\* generator is left to the runtime
InitWrap == InitWith({}, 0, {{}}, 0)

WrapRun ==
    \/ WrapProbeReturn
    \/ WrapListReturn
    \/ WrapPostReturn
    \/ WrapLine
    \/ WrapEnd
    \/ WrapClose

NextWrap ==
    \/ WrapCall
    \/ WrapNext
    \/ WrapProbeReturn
    \/ WrapListReturn
    \/ WrapPostReturn
    \/ WrapLine
    \/ WrapEnd
    \/ WrapClose
    \/ WrapAbandon
    \/ WrapCancel
    \/ WrapFinalize
    \/ ServerFlip
    \/ ServerModelsChange

SpecWrap ==
    InitWrap /\ [][NextWrap]_vars /\ WF_vars(WrapRun) /\ WF_vars(WrapNext)

(* ------------------------------- claims -------------------------------- *)
EvIdx(c) == 1..Len(events[c])
IsTerminal(e) == e.type \in {"complete", "error"}
TerminalsOf(c, r) ==
    {i \in EvIdx(c) : events[c][i].req = r /\ IsTerminal(events[c][i])}
Answered(c, r) == TerminalsOf(c, r) # {}
EventsOf(c, r) == {i \in EvIdx(c) : events[c][i].req = r}
GenerationErrors ==
    ConnectionErrors \cup ModelErrors \cup {"TypeError", "AttributeError"}
Generating == {"invoke", "probe", "list", "post", "streaming"}

\* the handler of c has finished with request r: it has read a later request,
\* is back at receive_json, or has ended on a protocol fault
Finished(c, r) ==
    r < reqNo[c] \/ pc[c] = "receive" \/ pc[c] = "failed"

\* the handler of c leaves the receive loop in this step
LeavesLoop(c) == pc[c] \notin Ended /\ pc'[c] \in Ended

\* the only steps that leave the loop while the remote end is there: an
\* inbound frame that is not a JSON object
FaultStep(c) ==
    pc[c] = "receive" /\ inbox[c] # <<>> /\ Head(inbox[c]).json # "object"

\* C1: on a connection the events of a request are zero or more status
\* events followed by at most one terminal event (complete or error), with
\* nothing of that request after it and the requests answered in the order
\* read; once the handler has finished with a request there is exactly one
\* terminal event for it.
C1_OneTerminalEventPerRequest ==
    \A c \in Conns :
        /\ \A i \in EvIdx(c) :
             /\ events[c][i].type \in {"status", "complete", "error"}
             /\ events[c][i].req \in 1..reqNo[c]
        /\ \A i, j \in EvIdx(c) :
             i < j => /\ events[c][i].req <= events[c][j].req
                      /\ events[c][i].req = events[c][j].req
                            => ~IsTerminal(events[c][i])
        /\ \A r \in 1..reqNo[c] :
             Finished(c, r) => Cardinality(TerminalsOf(c, r)) = 1

\* a connection that has answered two requests, one with a complete event
\* and one with the error event of a failed generation
C1_Witness ==
    \E c \in Conns :
        /\ pc[c] = "receive"
        /\ reqNo[c] = 2
        /\ \E i, j \in EvIdx(c) :
             /\ events[c][i].type = "complete"
             /\ events[c][j].type = "error"
             /\ events[c][j].data # <<>>
             /\ events[c][j].data[1] \in GenerationErrors

\* C2: when a generation has raised and the remote end is there, the next
\* step of the handler emits the error event and is back at receive_json;
\* the handler leaves the loop only when the remote end is gone or a frame is
\* not a JSON object; and a well-formed request read at receive_json is
\* dispatched (status event, orchestrator next) whatever came before.
C2_ErrorKeepsConnectionOpen ==
    [][\A c \in Conns :
         /\ (pc[c] = "send_error" /\ connected[c] /\ pc'[c] # pc[c])
               => /\ pc'[c] = "receive"
                  /\ events'[c] = Append(events[c],
                        Ev(reqNo[c], "error", FailPrefix(cur[c].type),
                           <<call[c].err>>))
         /\ LeavesLoop(c) => (~connected[c] \/ FaultStep(c))
         /\ (/\ pc[c] = "receive" /\ pc'[c] # pc[c] /\ connected[c]
             /\ inbox[c] # <<>> /\ Head(inbox[c]).json = "object"
             /\ Head(inbox[c]).type \in KnownTypes)
               => /\ pc'[c] = "invoke"
                  /\ events'[c] = Append(events[c],
                        Ev(reqNo[c] + 1, "status",
                           StatusMessage(Head(inbox[c]).type), <<>>))
    ]_vars

\* after the error event of a failed generation the same connection has
\* received a complete event for its next request
C2_Witness ==
    \E c \in Conns :
        \E i, j \in EvIdx(c) :
            /\ events[c][i].req = 1
            /\ events[c][i].type = "error"
            /\ events[c][i].data # <<>>
            /\ events[c][i].data[1] \in GenerationErrors
            /\ events[c][j].req = 2
            /\ events[c][j].type = "complete"

\* C3: a request whose type is none of html, css, react, enhance, fix (or
\* is missing) invokes no orchestrator method and gets no status or complete
\* event and at most one error event -- exactly one once the handler has
\* finished with it; read while the remote end is there, it is answered by
\* the "Unknown request type" error event and the handler is back at
\* receive_json.
C3_UnknownTypeIsErrorEvent ==
    /\ [](\A c \in Conns : \A r \in 1..reqNo[c] :
            reqKinds[c][r] \notin KnownTypes =>
                /\ r \notin invoked[c]
                /\ \A i \in EventsOf(c, r) : events[c][i].type = "error"
                /\ Cardinality(EventsOf(c, r)) <= 1
                /\ Finished(c, r) => Cardinality(EventsOf(c, r)) = 1)
    /\ [][\A c \in Conns :
            (/\ pc[c] = "receive" /\ pc'[c] # pc[c] /\ connected[c]
             /\ inbox[c] # <<>> /\ Head(inbox[c]).json = "object"
             /\ Head(inbox[c]).type \notin KnownTypes)
               => /\ pc'[c] = "receive"
                  /\ events'[c] = Append(events[c],
                        Ev(reqNo[c] + 1, "error", "Unknown request type",
                           <<>>))
                  /\ call'[c] = call[c]
       ]_vars

\* a connection whose first request had an unknown or missing type and whose
\* second request has been given its status event
C3_Witness ==
    \E c \in Conns :
        /\ reqNo[c] = 2
        /\ reqKinds[c][1] \notin KnownTypes
        /\ \E i, j \in EvIdx(c) :
             /\ events[c][i] = Ev(1, "error", "Unknown request type", <<>>)
             /\ events[c][j].req = 2
             /\ events[c][j].type = "status"

\* C4: an orchestrator method is invoked for a request only after the status
\* event of that request has been sent, and every complete event answers a
\* request whose method has returned, carries the value it returned under
\* the key of the request's kind, and comes after that status event.
C4_StatusThenInvokeThenComplete ==
    \A c \in Conns :
        /\ \A r \in invoked[c] :
             \E i \in EvIdx(c) :
                 events[c][i] =
                     Ev(r, "status", StatusMessage(reqKinds[c][r]), <<>>)
        /\ \A j \in EvIdx(c) :
             events[c][j].type = "complete" =>
                 /\ events[c][j].req \in invoked[c]
                 /\ [req |-> events[c][j].req, value |-> events[c][j].data]
                        \in returned[c]
                 /\ events[c][j].tag =
                        ArtifactKey(reqKinds[c][events[c][j].req])
                 /\ \E i \in 1..(j - 1) :
                        /\ events[c][i].req = events[c][j].req
                        /\ events[c][i].type = "status"

\* a complete event carrying a non-empty artifact has been sent
C4_Witness ==
    \E c \in Conns : \E j \in EvIdx(c) :
        events[c][j].type = "complete" /\ events[c][j].data # <<>>

\* C5: once the remote end has disconnected, the generation in flight on its
\* connection consumes at most the increment that was already on its way.
C5_AbandonOnDisconnect ==
    \A c \in Conns : call[c].afterClose <= 1

\* C6: the handler reads a request only after every earlier request of the
\* connection has its terminal event, so at most one invoked request is
\* without one, and while a generation runs it is the latest request read.
C6_OneGenerationInFlight ==
    \A c \in Conns :
        /\ \A r \in 1..(reqNo[c] - 1) : Answered(c, r)
        /\ Cardinality({r \in invoked[c] : ~Answered(c, r)}) <= 1
        /\ \A r \in invoked[c] : ~Answered(c, r) => r = reqNo[c]
        /\ pc[c] \in Generating \ {"invoke"} =>
               reqNo[c] \in invoked[c] /\ ~Answered(c, reqNo[c])

\* a request has arrived while the generation of the previous one is reading
\* the response stream
C6_Witness ==
    \E c \in Conns :
        /\ pc[c] = "streaming"
        /\ call[c].nlines > 0
        /\ inbox[c] # <<>>
        /\ Head(inbox[c]).type \in KnownTypes

\* C7: a call whose model is not in REQUIRED_OLLAMA_MODELS has sent no
\* request to the inference server.
C7_AllowListBeforeNetwork ==
    \A c \in Conns :
        (pc[c] \in Generating \cup {"send_error", "send_complete"}
         /\ EffectiveModel(cur[c].model) \notin REQUIRED_OLLAMA_MODELS)
            => call[c].calls = {}

C9_InitFailsWithoutServer ==
    \A c \in Conns :
        manager[c] # NoObj =>
            /\ initResult = "ok"
            /\ avail[ClientOf(c)] # NoList
            /\ REQUIRED_OLLAMA_MODELS \subseteq avail[ClientOf(c)][1]

\* C10: get_ollama_client sends at most one probe in the life of the
\* process, and a call made when the client exists returns that client,
\* sends nothing and leaves the client's model list as it is.
C10_InitOnceNoDuplicateProbe ==
    /\ [](initProbes <= 1)
    /\ [][ollama_client # NoObj =>
            /\ ollama_client' = ollama_client
            /\ initProbes' = initProbes
            /\ (hpc = "idle" /\ hpc' # hpc) =>
                   (hclient' = ollama_client /\ avail' = avail)
            /\ \A c \in Conns :
                   (pc[c] = "gpm" /\ pc'[c] # pc[c]) =>
                       (mgrClient'[manager'[c]] = ollama_client
                        /\ avail' = avail)
       ]_vars

\* two callers were inside get_prompt_manager / get_ollama_client at once and
\* a later call found the client in place
C10_Witness ==
    /\ initProbes = 1
    /\ \E c, d \in Conns :
         c # d /\ pc[c] = "init_probe" /\ manager[d] # NoObj
    /\ hpc = "list"

\* C11: initialisation is single-flight: a coroutine holds the shared client
\* (through the manager built on it or, in health_check, directly) only once
\* the connectivity probe of get_ollama_client has completed.
C11_SingleFlightInit ==
    /\ \A c \in Conns : manager[c] # NoObj => initResult # "none"
    /\ hclient # NoObj => initResult # "none"

\* the host part of a URL
Host(u) == u[2]

\* C12: no OllamaClient object exists whose base URL names a host that is
\* not loopback (localhost / 127.0.0.1): the constructor raises instead.
C12_LoopbackOnly ==
    \A k \in ClientIds :
        k <= clientsMade => Host(base_url[k]) \in LoopbackHosts

\* the lines of the body the call has read so far
ReadLines == SubSeq(rcall.body, 1, rcall.pos)

\* C13: whatever lines the server sends, no increment yielded by
\* generate_streaming_response is the empty string.
C13_NoEmptyIncrement ==
    \A i \in 1..Len(rcall.chunks) : rcall.chunks[i] # <<>>

\* a call has read a line whose response field is the empty string and has
\* yielded the increment of another line
C13_Witness ==
    /\ rcall.chunks # <<>>
    /\ \E i \in 1..rcall.pos :
         /\ rcall.body[i].kind = "json"
         /\ rcall.body[i].has
         /\ rcall.body[i].resp = <<>>

\* a response line that is an object with done = true and no error payload
DoneObject(ln) == ln.kind = "json" /\ ln.done

\* a response line that carries a non-empty increment
CarriesText(ln) == ln.kind = "json" /\ ln.has /\ ln.resp # <<>>

\* the call on the request/response path has handed its result back
Succeeded == rresp.outcome \in {"ApiResponse", "Completion"}

\* C14: the increments of a call are finite and stop at the done object or
\* at the end of the body: every increment comes from a line that was read,
\* no line after a done object is read (so none of its text is yielded),
\* reading the done object ends the call at once, and a call that returned
\* had read a done object or the whole body.
C14_EndsAtDoneOrClose ==
    /\ Len(rcall.chunks) <= rcall.pos
    /\ rcall.pos <= Len(rcall.body)
    /\ \A i \in 1..(rcall.pos - 1) : ~DoneObject(rcall.body[i])
    /\ (rcall.pos > 0 /\ DoneObject(rcall.body[rcall.pos])) =>
           (rpc = "idle" /\ Succeeded)
    /\ rpc = "streaming" => \A i \in 1..rcall.pos : ~DoneObject(rcall.body[i])
    /\ Succeeded =>
           \/ rcall.pos = Len(rcall.body)
           \/ DoneObject(rcall.body[rcall.pos])

\* a call has returned on a done object that the server followed by a line
\* carrying text; that line was not read
C14_Witness ==
    /\ Succeeded
    /\ rcall.pos = 1
    /\ Len(rcall.body) = 2
    /\ DoneObject(rcall.body[1])
    /\ CarriesText(rcall.body[1])
    /\ CarriesText(rcall.body[2])
    /\ rcall.chunks = <<rcall.body[1].resp>>

\* the texts of the lines of ls that carry one, in order
TextsOf(ls) ==
    LET sel == SelectSeq(ls, CarriesText)
    IN  [i \in 1..Len(sel) |-> sel[i].resp]

\* C15: a line that does not decode is skipped: reading it leaves the call
\* in the stream with nothing yielded and nothing raised, no call ever fails
\* on such a line, and the increments yielded are the texts of all decodable
\* lines read, in order, whatever undecodable lines lie between them.
C15_UndecodableLineSkipped ==
    /\ [](/\ rcall.chunks = TextsOf(ReadLines)
          /\ rcall.raised # "JSONDecodeError"
          /\ rcall.fault = "payload" =>
                 rcall.body[rcall.pos].kind \notin {"garbage", "blank"})
    /\ [][(/\ rpc = "streaming"
           /\ rcall.pos < Len(rcall.body)
           /\ rcall.body[rcall.pos + 1].kind = "garbage"
           /\ rcall' # rcall)
              => /\ rpc' = "streaming"
                 /\ rcall' = [rcall EXCEPT !.pos = @ + 1]
                 /\ rresp' = rresp
       ]_vars

\* a call has returned the text of a done object that followed an
\* undecodable line
C15_Witness ==
    /\ Succeeded
    /\ rcall.pos = 2
    /\ rcall.body[1].kind = "garbage"
    /\ DoneObject(rcall.body[2])
    /\ rcall.chunks = <<rcall.body[2].resp>>
    /\ rcall.chunks[1] # <<>>

\* the caller of the request/response path got an exception
Failed == rresp.outcome \in {"HTTPException", "raised"}

\* C16: a decoded line with an error payload is fatal: reading it ends the
\* call with the connection error of the stream, yields nothing from that
\* line, and no later line is read; the caller gets the error and no result,
\* whatever had been yielded before.
C16_ErrorPayloadFatal ==
    /\ [](/\ \A i \in 1..rcall.pos :
                rcall.body[i].kind = "error" =>
                    /\ i = rcall.pos
                    /\ rpc = "idle"
                    /\ rcall.raised = "conn:stream_error"
          /\ rcall.raised = "conn:stream_error" =>
                /\ ErrClass(rcall.raised) = "OllamaConnectionError"
                /\ Failed
                /\ rresp.data = <<>>
                /\ rresp.detail = rcall.raised)
    /\ [][(/\ rpc = "streaming"
           /\ rcall.pos < Len(rcall.body)
           /\ rcall.body[rcall.pos + 1].kind = "error"
           /\ rcall' # rcall)
              => /\ rpc' = "idle"
                 /\ rcall'.pos = rcall.pos + 1
                 /\ rcall'.chunks = rcall.chunks
                 /\ rcall'.response = rcall.response
       ]_vars

\* an orchestrator method had accumulated an increment when an error payload
\* that also carried text and done = true arrived; the endpoint answered with
\* an error and no data
C16_Witness ==
    /\ rreq.entry \in Endpoints
    /\ rcall.pos = 2
    /\ rcall.body[2].kind = "error"
    /\ rcall.body[2].has
    /\ rcall.body[2].done
    /\ Len(rcall.chunks) = 1
    /\ rresp.outcome = "HTTPException"
    /\ rresp.data = <<>>

\* the variants of the connection error a caller can tell apart
TimedOutVariant == {"conn:timeout"}
UnreachableVariants == {"conn:unreachable", "conn:network", "conn:list_network"}

\* C17: a call that failed because a request to the server timed out raised
\* the timed-out variant of the connection error, and a call that failed
\* because the server could not be reached raised an unreachable or
\* network-error variant; neither cause ever gives the other's variant.
C17_TimeoutDistinct ==
    /\ rcall.fault = "timeout" => rcall.raised \in TimedOutVariant
    /\ rcall.fault = "network" => rcall.raised \in UnreachableVariants
    /\ rcall.raised \in TimedOutVariant => rcall.fault = "timeout"

\* the concatenation of the texts of ts, in order
RECURSIVE Concat(_)
Concat(ts) == IF ts = <<>> THEN <<>> ELSE Head(ts) \o Concat(Tail(ts))

C19_NoPartialResult ==
    /\ rreq.entry \in Endpoints =>
          /\ rcall.raised # None =>
                 /\ rpc = "idle"
                 /\ rresp.outcome = "HTTPException"
                 /\ rresp.data = <<>>
                 /\ rcall.err = rcall.raised
                 /\ rresp.detail = rcall.raised
          /\ rresp.outcome = "ApiResponse" =>
                 /\ rcall.raised = None
                 /\ rresp.data = MethodResult(rreq.entry,
                                              Concat(rcall.chunks))
    /\ \A c \in Conns :
          /\ call[c].err \in GenerationErrors =>
                 /\ pc[c] = "send_error"
                 /\ \A v \in returned[c] : v.req # reqNo[c]
          /\ call[c].err = "TypeError" => call[c].calls = {}
          /\ \A v \in returned[c] :
                 v.req = reqNo[c] =>
                     call[c].err \notin GenerationErrors

\* the stream of an endpoint's orchestrator method timed out after an
\* increment had been accumulated
C19_Witness ==
    /\ rreq.entry \in Endpoints
    /\ rcall.fault = "timeout"
    /\ rcall.response # <<>>
    /\ rresp.outcome = "HTTPException"
    /\ rresp.detail = "conn:timeout"

\* the exceptions of the inference client: connection and model errors
OllamaErrors == ConnectionErrors \cup ModelErrors

\* C20: a connection error or model-unavailable error of a generation
\* always reaches the caller.  On an endpoint it becomes a 503 response,
\* any other exception a 500 response, and a success response is given only
\* when nothing was raised.  On a websocket the handler goes to send the
\* error event as soon as the error is raised, and sends it, carrying that
\* error, whenever the remote end is still there.
C20_OllamaErrorsSurface ==
    /\ [](/\ rreq.entry \in Endpoints =>
                /\ rcall.raised \in OllamaErrors =>
                       (rresp.outcome = "HTTPException"
                        /\ rresp.status = 503)
                /\ (rcall.raised # None
                    /\ rcall.raised \notin OllamaErrors) =>
                       (rresp.outcome = "HTTPException"
                        /\ rresp.status = 500)
                /\ rresp.outcome = "ApiResponse" =>
                       (rcall.raised = None /\ rresp.status = 200)
          /\ \A c \in Conns :
                call[c].err \in OllamaErrors => pc[c] = "send_error")
    /\ [][\A c \in Conns :
            (/\ pc[c] = "send_error"
             /\ call[c].err \in OllamaErrors
             /\ connected[c]
             /\ pc'[c] # pc[c])
               => events'[c] = Append(events[c],
                      Ev(reqNo[c], "error", FailPrefix(cur[c].type),
                         <<call[c].err>>))
       ]_vars

\* an endpoint has answered 503 for a model the server does not host
C20_Witness ==
    /\ rreq.entry \in Endpoints
    /\ rcall.raised = "model:not_found"
    /\ rresp.outcome = "HTTPException"
    /\ rresp.status = 503

(* ---------------------- claims about the parsers ----------------------- *)
\* the artifacts create_website asks the model for; the first is primary
PrimaryArtifact == "index.html"
ExpectedArtifacts == {"index.html", "style.css", "script.js"}
Parsed == "parse" \in udone
Fenced(t) == Contains(t, FENCE)

\* C21: for a completion without any fence, _parse_files returns the whole
\* text (as it is, or with its surrounding whitespace trimmed) as the primary
\* artifact, and every other expected artifact is present and empty.
C21_NoFenceWholeText ==
    (Parsed /\ ~Fenced(utext)) =>
        /\ DOMAIN ufiles = ExpectedArtifacts
        /\ ufiles[PrimaryArtifact] \in {utext, Strip(utext)}
        /\ \A f \in ExpectedArtifacts \ {PrimaryArtifact} : ufiles[f] = <<>>

\* the fenced blocks of a text, in order: what stands between an opening
\* fence and the fence that closes it
BlocksOf(t) ==
    LET parts == Split(t, FENCE)
        n == Len(parts) \div 2
    IN  [k \in 1..n |-> parts[2 * k]]
\* every fence that opens a block is closed
WellFormed(t) == Len(Split(t, FENCE)) % 2 = 1
\* the language tag of a block: what follows the opening fence on its line
TagOf(b) == IF b = <<>> \/ Head(b) \in Whitespace THEN None ELSE Head(b)
\* the inner text of a block: the lines after the tag line, trimmed
InnerOf(b) == Strip(Join(Tail(Split(b, NL)), NL))
\* the inner texts of the blocks of t tagged g
InnersOf(t, g) ==
    {InnerOf(BlocksOf(t)[k]) :
        k \in {j \in DOMAIN BlocksOf(t) : TagOf(BlocksOf(t)[j]) = g}}

\* C22: for a well-formed completion with an html block and a css block,
\* _parse_files returns the index artifact equal to the trimmed inner text
\* of an html block and the style artifact equal to the trimmed inner text of
\* a css block, without fences and language tags.
C22_HtmlAndCssBlocks ==
    (/\ Parsed
     /\ WellFormed(utext)
     /\ InnersOf(utext, "html") # {}
     /\ InnersOf(utext, "css") # {}) =>
        /\ {"index.html", "style.css"} \subseteq DOMAIN ufiles
        /\ ufiles["index.html"] \in InnersOf(utext, "html")
        /\ ufiles["style.css"] \in InnersOf(utext, "css")

\* the file a filename mention names
FileOf(h) == IF h = ".js" THEN "script.js" ELSE h
\* the text outside the blocks that precedes block k
RECURSIVE ProseBefore(_, _)
ProseBefore(t, k) ==
    IF k = 0 THEN <<>>
    ELSE ProseBefore(t, k - 1) \o Split(t, FENCE)[2 * k - 1]
\* the last filename mentioned in a text, None when there is none
RECURSIVE LastHint(_)
LastHint(p) ==
    IF p = <<>> THEN None
    ELSE IF Hint(p[Len(p)]) # None THEN FileOf(Hint(p[Len(p)]))
    ELSE LastHint(SubSeq(p, 1, Len(p) - 1))
\* the artifact block k belongs to: the file of the nearest hint before
\* it, the index file when no hint precedes it
ResolvesTo(t, k) ==
    IF LastHint(ProseBefore(t, k)) = None THEN PrimaryArtifact
    ELSE LastHint(ProseBefore(t, k))
\* a block as an artifact's content: trimmed, with or without its tag line
Renderings(b) == {Strip(b), InnerOf(b)}
BlocksFor(t, f) == {k \in DOMAIN BlocksOf(t) : ResolvesTo(t, k) = f}
FirstOf(ks) == CHOOSE k \in ks : \A j \in ks : k <= j

\* C23: when several blocks of a well-formed completion belong to the same
\* artifact, the content _parse_files returns for it is the first of them.
C23_FirstBlockWins ==
    (Parsed /\ WellFormed(utext)) =>
        \A f \in DOMAIN ufiles :
            Cardinality(BlocksFor(utext, f)) >= 2 =>
                ufiles[f] \in
                    Renderings(BlocksOf(utext)[FirstOf(BlocksFor(utext, f))])

\* C24: in a well-formed completion every block is assigned to the file of
\* the nearest filename hint before it, or to the index file when no hint
\* precedes it: that file is in the mapping _parse_files returns and its
\* content is one of the blocks that belong to it; whether or not the text
\* mentions the index file name.
C24_HintsAssignBlocks ==
    (Parsed /\ WellFormed(utext)) =>
        \A k \in DOMAIN BlocksOf(utext) :
            LET f == ResolvesTo(utext, k)
            IN  /\ f \in DOMAIN ufiles
                /\ ufiles[f] \in
                      UNION {Renderings(BlocksOf(utext)[j]) :
                                j \in BlocksFor(utext, f)}

(* --------------------- claims about the formatter ---------------------- *)
\* the roles of a chat message
ChatRoles == {"system", "user", "assistant"}
Formatted == "format" \in udone
\* the label of a role: its capitalised name, a colon and a space
LabelFor(r) ==
    CASE r = "system" -> "System: "
      [] r = "user" -> "User: "
      [] r = "assistant" -> "Assistant: "
\* the content of a message as text: a list content is its text items and
\* one placeholder per image, separated by single spaces
RECURSIVE Rendered(_, _)
Rendered(items, acc) ==
    IF items = <<>> THEN acc
    ELSE LET t == IF Head(items).type = "text" THEN Head(items).text
                   ELSE <<IMAGE_PLACEHOLDER>>
         IN  Rendered(Tail(items), IF acc = <<>> THEN t ELSE acc \o <<" ">> \o t)
TextOf(m) == IF m.list THEN Rendered(m.items, <<>>) ELSE m.text
\* label and content of each message in order, a double newline after each
RECURSIVE Conventional(_)
Conventional(ms) ==
    IF ms = <<>> THEN <<>>
    ELSE <<LabelFor(Head(ms).role)>> \o TextOf(Head(ms)) \o <<NL, NL>>
         \o Conventional(Tail(ms))

\* C25: the prompt formatted from a conversation of system, user and
\* assistant messages is, for each message in order, its role label followed
\* by its content and a double newline, and then the closing instruction; so
\* the prompt is a function of the conversation.
C25_SeparatorConvention ==
    (Formatted /\ \A i \in DOMAIN umsgs : umsgs[i].role \in ChatRoles) =>
        uprompt = Conventional(umsgs) \o FINAL_INSTRUCTION

\* a conversation of two messages of different roles, one of them multimodal,
\* has been formatted
C25_Witness ==
    /\ Formatted
    /\ Len(umsgs) = 2
    /\ umsgs[1].role = "system"
    /\ umsgs[2].role = "user"
    /\ umsgs[2].list
    /\ uprompt # <<>>

(* ------------------ claims about the pipeline, continued --------------- *)
\* C26: with the mock flag set, a call of a POST endpoint sends no request
\* to the inference server (no probe at construction, no probe, listing or
\* generate request of the call) and ends with a successful response that
\* carries non-empty content.
C26_MockBypassesPipeline ==
    (SHOULD_MOCK_AI_RESPONSE /\ rreq.entry \in Endpoints) =>
        /\ initProbes = 0
        /\ rcall.calls = {}
        /\ rpc = "idle" =>
              (rresp.outcome = "ApiResponse" /\ rresp.data # <<>>)

\* text sub occurs in text s
ContainsSeq(s, sub) ==
    \E i \in 0..(Len(s) - Len(sub)) : SubSeq(s, i + 1, i + Len(sub)) = sub
\* the phrases of the error messages that tell the reader what to do
RemediationHints ==
    {". Start with: ollama serve", "To install the model, run:",
     "This might indicate the model is too large for your system or needs more time."}
HasHint(msg) == \E i \in 1..Len(msg) : msg[i] \in RemediationHints

\* C27: a call that failed because a request of it (probe, model listing
\* or generate) could not reach the server raised a connection error whose
\* message contains the client's base URL and a remediation hint.
C27_UnreachableNamesUrlAndHint ==
    rcall.fault = "network" =>
        /\ ErrClass(rcall.raised) = "OllamaConnectionError"
        /\ ContainsSeq(rcall.msg, base_url[rclient])
        /\ HasHint(rcall.msg)

\* C28: a call for a model outside the required-models list that got as far
\* as the model check failed with the model error, and the message of that
\* error names every model of the required-models list.
C28_DisallowedModelListsAllowed ==
    (/\ rcall.model \notin REQUIRED_OLLAMA_MODELS \cup {None}
     /\ rcall.listed # NoList) =>
        /\ ErrClass(rcall.raised) = "OllamaModelError"
        /\ \A m \in REQUIRED_OLLAMA_MODELS : Contains(rcall.msg, m)

\* the step in which the model check of the call on connection c accepts
\* the model, and the step in which it rejects it
Accepts(c) ==
    "generate" \notin call[c].calls /\ "generate" \in call'[c].calls
Rejects(c) ==
    call[c].err # "model:not_found" /\ call'[c].err = "model:not_found"

\* C29: every decision about a model's availability agrees with what the
\* server hosts when the decision is made: a generation accepts its model
\* only if the server hosts it then, and rejects it only if it does not.
C29_AvailabilityNotCached ==
    [][\A c \in Conns :
          /\ Accepts(c) => call'[c].model \in serverModels
          /\ Rejects(c) => call'[c].model \notin serverModels]_vars

\* C30: no step taken while a generation is in progress changes state
\* shared between requests: the fields of the client objects (base URL,
\* model list) and the module-level singletons with the manager's client.
C30_GenerationLeavesSharedState ==
    [][(\E c \in Conns : pc[c] \in Generating) =>
          UNCHANGED <<avail, base_url, ollama_client, prompt_manager,
                      mgrClient>>]_vars

(* ------------------- claims about concurrent callers ------------------- *)
\* C31: while two connections generate at the same time over the shared
\* client, the text accumulated for each connection is the concatenation of
\* the increments its own stream yielded, in order; the value its method
\* returns is extracted from that text, and the complete event delivered to
\* the connection carries that value.
C31_NoInterleaving ==
    \A c \in Conns :
        /\ call[c].response = Concat(call[c].chunks)
        /\ pc[c] = "send_complete" =>
              \E v \in returned[c] :
                  /\ v.req = reqNo[c]
                  /\ v.value = ExtractCode(Concat(call[c].chunks))
        /\ \A i \in EvIdx(c) :
               events[c][i].type = "complete" =>
                   \E v \in returned[c] :
                       /\ v.req = events[c][i].req
                       /\ v.value = events[c][i].data

\* both connections are in the middle of their streams at the same time,
\* one has received two increments and the other one
C31_Witness ==
    /\ pc[1] = "streaming"
    /\ pc[2] = "streaming"
    /\ Len(call[1].chunks) = 2
    /\ Len(call[2].chunks) = 1

(* ------------------ claims about the request/response path ------------- *)
\* the "data" mapping of a response
DataOf(resp) == [k \in {resp.key} |-> resp.data]

\* C32: a successful response of the generate-HTML endpoint carries an html
\* artifact and a css artifact, both non-empty.
C32_HtmlReturnsHtmlAndCss ==
    (rreq.entry = "html" /\ rresp.outcome = "ApiResponse") =>
        /\ {"html", "css"} \subseteq DOMAIN DataOf(rresp)
        /\ \A k \in {"html", "css"} : DataOf(rresp)[k] # <<>>

(* ----------------------- claims about the singletons ------------------- *)
\* the client objects get_ollama_client has handed out: to health_check, and
\* to get_prompt_manager, which builds a manager on each
HandedOut ==
    {mgrClient[m] : m \in 1..managersMade}
    \cup (IF hclient = NoObj THEN {} ELSE {hclient})

\* C33: however the callers of get_prompt_manager and get_ollama_client
\* interleave, at most one OllamaClient is constructed, and every client
\* handed out by get_ollama_client is the one stored in the global.
C33_OneClient ==
    /\ clientsMade <= 1
    /\ \A k \in HandedOut : k # NoObj /\ k = ollama_client

\* the probe of the first caller is still in flight while another
\* connection has built its manager on the client and health_check holds it
C33_Witness ==
    /\ clientsMade = 1
    /\ managersMade = 1
    /\ hclient = ollama_client
    /\ \E c \in Conns : pc[c] = "init_probe"

\* C34: however the first callers of get_prompt_manager interleave, at most
\* one WebsitePromptManager is constructed, and the manager every handler
\* received is the one stored in the global.
C34_OneManager ==
    /\ managersMade <= 1
    /\ \A c \in Conns : manager[c] # NoObj => manager[c] = prompt_manager

(* ------------------- claims about the connection handler --------------- *)
\* C35: the step that reads a frame which is not a JSON object ends the
\* handler without emitting an event and without counting or dispatching a
\* request, and an ended handler takes no further step: it reads no frame,
\* emits no event and invokes no method, whatever the remote end sends.
C35_MalformedFrameEndsHandler ==
    [][\A c \in Conns :
         /\ (FaultStep(c) /\ inbox'[c] = Tail(inbox[c])) =>
               /\ pc'[c] = "failed"
               /\ events'[c] = events[c]
               /\ reqNo'[c] = reqNo[c]
               /\ invoked'[c] = invoked[c]
         /\ pc[c] = "failed" =>
               /\ pc'[c] = "failed"
               /\ events'[c] = events[c]
               /\ reqNo'[c] = reqNo[c]
               /\ invoked'[c] = invoked[c]
               /\ Len(inbox'[c]) >= Len(inbox[c])
    ]_vars

\* the handler has ended on a malformed first frame without any event, the
\* remote end is still there and a well-formed frame it sent waits unread
C35_Witness ==
    /\ pc[1] = "failed"
    /\ connected[1]
    /\ events[1] = <<>>
    /\ inbox[1] # <<>>
    /\ Head(inbox[1]).json = "object"

\* a send_json to the remote end of c has raised and the exception is on its
\* way out of the helper or of the inner try
SendFailed(c) ==
    /\ ~connected[c]
    /\ call[c].err = "WebSocketDisconnect"
    /\ pc[c] \in {"send_error", "outer_error"}

\* C36: once the remote end of an accepted connection is gone the handler
\* eventually returns, the inference server answering what is in flight; and
\* from a failed send on, the handler only moves outwards (helper's except
\* block, inner except block, end): it reads no frame, counts no request and
\* invokes no method.
C36_DisconnectEndsHandler ==
    /\ \A c \in Conns :
          (pc[c] # "idle" /\ ~connected[c]) ~> (pc[c] \in Ended)
    /\ [][\A c \in Conns :
             (SendFailed(c) \/ pc[c] = "closed") =>
                /\ pc'[c] \in {pc[c], "outer_error", "closed"}
                /\ inbox'[c] = inbox[c]
                /\ reqNo'[c] = reqNo[c]
                /\ invoked'[c] = invoked[c]
                /\ events'[c] = events[c]
       ]_vars

\* the handler has returned after a generation that produced its artifact
\* while the remote end went away: no complete event could be sent
C36_Witness ==
    /\ pc[1] = "closed"
    /\ ~connected[1]
    /\ reqNo[1] = 1
    /\ returned[1] # {}
    /\ \A i \in EvIdx(1) : events[1][i].type = "status"

FinalText(ln) ==
    ln.kind = "json" /\ ln.has /\ ln.resp # <<>> /\ ln.done

\* C38: reading a response object that carries non-empty text and
\* done = true yields that text and ends the call in the same step: the text
\* is the last increment, it is at the end of the accumulated text, no
\* exception is raised, the caller gets a result and no later line is read.
C38_FinalLineTextYielded ==
    /\ [](\A i \in 1..rcall.pos :
              FinalText(rcall.body[i]) =>
                  /\ i = rcall.pos
                  /\ rpc = "idle"
                  /\ rcall.raised = None
                  /\ rcall.chunks # <<>>
                  /\ rcall.chunks[Len(rcall.chunks)] = rcall.body[i].resp
                  /\ rcall.response = Concat(rcall.chunks)
                  /\ rresp.outcome \in {"ApiResponse", "Completion"})
    /\ [][(/\ rpc = "streaming"
           /\ rcall.pos < Len(rcall.body)
           /\ FinalText(rcall.body[rcall.pos + 1])
           /\ rcall' # rcall)
              => /\ rpc' = "idle"
                 /\ rcall'.pos = rcall.pos + 1
                 /\ rcall'.chunks =
                       Append(rcall.chunks, rcall.body[rcall.pos + 1].resp)
       ]_vars

\* the second line of the body carried text and done = true: both texts
\* were yielded and the endpoint answered with a result
C38_Witness ==
    /\ rreq.entry \in Endpoints
    /\ Len(rcall.body) = 2
    /\ rcall.pos = 2
    /\ FinalText(rcall.body[2])
    /\ Len(rcall.chunks) = 2
    /\ rresp.outcome = "ApiResponse"

\* C39: a generate request answered with a status other than 200 ends the
\* call with the connection error of the status check, raised in the step
\* that gets the answer: no line of the body is read, nothing is yielded or
\* accumulated, and the caller gets the error and no result.
C39_BadStatusYieldsNothing ==
    /\ rcall.post = "500" =>
          /\ rpc = "idle"
          /\ rcall.raised = "conn:api_status"
          /\ ErrClass(rcall.raised) = "OllamaConnectionError"
          /\ rcall.pos = 0
          /\ rcall.chunks = <<>>
          /\ rcall.response = <<>>
          /\ Failed
          /\ rresp.data = <<>>
    /\ rcall.raised = "conn:api_status" => rcall.post = "500"

\* an endpoint whose generate request was answered 500 after the probe and
\* the model check had passed: it answers with the connection error
C39_Witness ==
    /\ rreq.entry \in Endpoints
    /\ rcall.post = "500"
    /\ rcall.calls = {"version", "tags", "generate"}
    /\ rresp.outcome = "HTTPException"
    /\ rresp.detail = Reraise("conn:api_status")
====
